---------------------------- MODULE Spec2Model ----------------------------
(***************************************************************************)
(* CXL switch emulator (cse): the switch model, the FM API and emulator    *)
(* API handlers, and the locking discipline around the single model        *)
(* instance.                                                               *)
(*                                                                         *)
(* The model record `cxls` is struct cxl_switch_state.  Arrays are scaled  *)
(* down (NumPorts ports, MaxVppbs vPPB slots, CfgSize config bytes), the   *)
(* widths of the integer fields are kept (U8, U16).                        *)
(***************************************************************************)
EXTENDS Integers, Sequences, FiniteSets, TLC

\* ------------------------------------------------------------------ bounds
NumPorts == 3        \* ports given to state_init
NumVcss  == 1        \* VCSs given to state_init
MaxVppbs == 3        \* slots of vcs.vppbs[] (MAX_VPPBS_PER_VCS, scaled)
CfgSize  == 2        \* bytes of a config space buffer (CFG_SPACE_SIZE, scaled)
MaxQueue == 1        \* frames the transport lets wait on tmq and acq together
MaxLd    == 4        \* entries of the per-LD arrays of an MLD (MAX_LD, scaled)
FM_MAX_VCS_PER_RSP == 2  \* VCS blocks of one VSC_INFO response (scaled)
MemGranule == 2      \* bytes of a 256 MB granule of LD memory (scaled)
MemMaxLen  == 3      \* bytes one MPC_MEM request may move (4096, scaled)
MemWord    == 16     \* modulus of the __u64 arithmetic of fmop_mpc_mem (scaled)

\* --------------------------------------------------------- integer widths
U8(x)  == x % 256
U16(x) == x % 65536

\* ------------------------------------------------------------ enumerations
\* Port state [FMPS]
FMPS_DISABLED  == "DISABLED"
FMPS_BINDING   == "BINDING"
FMPS_UNBINDING == "UNBINDING"
FMPS_DSP       == "DSP"
FMPS_USP       == "USP"
FMPS_FABRIC    == "FABRIC"
\* VCS state [FMVS]
FMVS_DISABLED  == "DISABLED"
FMVS_ENABLED   == "ENABLED"
\* LTSSM state [FMLS]; LTSSM_ZERO is the state whose code is 0
FMLS_DISABLED  == "DISABLED"
FMLS_L0        == "L0"
LTSSM_ZERO     == "ZERO"
\* Binding status [FMBS]
FMBS_UNBOUND    == 0
FMBS_INPROGRESS == 1
FMBS_BOUND_PORT == 2
FMBS_BOUND_LD   == 3
\* Device type [FMDT]
FMDT_NONE              == 0
FMDT_CXL_TYPE_1        == 2
FMDT_CXL_TYPE_3        == 4
FMDT_CXL_TYPE_3_POOLED == 5
\* Device CXL version [FMDV]
FMDV_NOT_CXL == 0
FMDV_CXL2_0  == 2
\* Return codes [FMRC], [EMRC]
FMRC_SUCCESS               == "SUCCESS"
FMRC_BACKGROUND_OP_STARTED == "BACKGROUND_OP_STARTED"
FMRC_INVALID_INPUT         == "INVALID_INPUT"
FMRC_UNSUPPORTED           == "UNSUPPORTED"
EMRC_SUCCESS               == "SUCCESS"
EMRC_UNSUPPORTED           == "UNSUPPORTED"
\* Message category / type
FMMT_REQ  == "REQ"
FMMT_RESP == "RESP"
EMMT_REQ  == "REQ"
EMMT_RSP  == "RESP"
\* The whole-port sentinel of an LD id
LDID_NONE == 65535

\* A null pointer to an owned object is the empty sequence, a live one <<obj>>
NULL == <<>>
Ptr(x) == <<x>>
Deref(p) == p[1]

\* --------------------------------------------------------- device catalog
\* struct mld of a device profile (mld_5x8_2.0_4G, two LDs instead of four)
MldProfile ==
  [ memory_size |-> 4 * MemGranule, num |-> 2, epc |-> 1, ttr |-> 1, granularity |-> 0,
    rng1 |-> [i \in 0..(MaxLd - 1) |-> IF i < 2 THEN 2 * i ELSE 0],
    rng2 |-> [i \in 0..(MaxLd - 1) |-> IF i < 2 THEN 2 * i + 1 ELSE 0],
    epc_en |-> 1, ttr_en |-> 1, egress_mod_pcnt |-> 10, egress_sev_pcnt |-> 25,
    sample_interval |-> 8, rcb |-> 0, comp_interval |-> 64, bp_avg_pcnt |-> 42,
    alloc_bw |-> [i \in 0..(MaxLd - 1) |-> IF i < 2 THEN 64 ELSE 0],
    bw_limit |-> [i \in 0..(MaxLd - 1) |-> IF i < 2 THEN 255 ELSE 0],
    cfgspace |-> <<>>, mmap |-> 1, file |-> FALSE, memspace |-> "NULL",
    mem |-> <<>> ]

CfgTemplate(lo) == [i \in 0..(CfgSize - 1) |-> IF i = 0 THEN lo ELSE 26]
CfgZero == [i \in 0..(CfgSize - 1) |-> 0]

\* cxl_state->devices[]: entry 2 is a gap of the did numbering (name == NULL)
Devices ==
  <<[ name |-> "cpu_5x16_2.0", rootport |-> 1, dv |-> FMDV_CXL2_0,
      dt |-> FMDT_CXL_TYPE_1, cv |-> 3, mlw |-> 16, mls |-> 5,
      cfgspace |-> CfgTemplate(1), mld |-> NULL ],
    [ name |-> "mld_5x8_2.0_4G", rootport |-> 0, dv |-> FMDV_CXL2_0,
      dt |-> FMDT_CXL_TYPE_3_POOLED, cv |-> 3, mlw |-> 8, mls |-> 5,
      cfgspace |-> CfgTemplate(2), mld |-> Ptr(MldProfile) ],
    [ name |-> "", rootport |-> 0, dv |-> 0, dt |-> 0, cv |-> 0, mlw |-> 0,
      mls |-> 0, cfgspace |-> CfgZero, mld |-> NULL ],
    [ name |-> "sld_5x8_1.1_4G", rootport |-> 0, dv |-> 1,
      dt |-> FMDT_CXL_TYPE_3, cv |-> 1, mlw |-> 8, mls |-> 5,
      cfgspace |-> CfgTemplate(4), mld |-> NULL ]>>

\* the devices[] entry with index dev (0-based, as in the emulator header)
Device(dev) == Devices[dev + 1]
num_devices == Len(Devices)

\* ------------------------------------------------------------ construction
\* One struct vppb; memset(v->vppbs, 0, ...) leaves every slot like this
ZeroVppb == [bind_status |-> FMBS_UNBOUND, ppid |-> 0, ldid |-> 0]

\* A port as state_init leaves it (the loop over ports and the calloc'd
\* config buffer)
DefaultPort(i) ==
  [ ppid |-> U8(i), state |-> FMPS_DISABLED, dv |-> FMDV_NOT_CXL,
    dt |-> FMDT_NONE, cv |-> 0, mlw |-> 16, nlw |-> 0, mls |-> 5, cls |-> 0,
    ltssm |-> FMLS_DISABLED, lane |-> 0, lane_rev |-> 0, perst |-> 0,
    prsnt |-> 0, pwrctrl |-> 0, ld |-> 0, cfgspace |-> CfgZero,
    mld |-> NULL, device_name |-> "" ]

\* A VCS as state_init leaves it
DefaultVcs(i) ==
  [ vcsid |-> U8(i), state |-> FMVS_DISABLED, uspid |-> 0, num |-> 0,
    vppbs |-> [k \in 0..(MaxVppbs - 1) |-> ZeroVppb] ]

\* The maxima of state.h
MAX_LD    == 16
MAX_PORTS == 256
MAX_VCSS  == MAX_PORTS
MAX_VPPBS == MAX_PORTS * MAX_LD

\* STEP 1 of state_init: an argument above its maximum becomes the maximum
Clamp(x, max) == IF x > max THEN max ELSE x

\* state_init(ports, vcss, vppbs): the arguments are clamped, then the counts
\* are stored in __u8 / __u16 fields; the arrays have the clamped `ports` and
\* `vcss` elements
state_init(ports, vcss, vppbs) ==
  [ msg_rsp_limit_n |-> 0,
    bos |-> [running |-> 0, pcnt |-> 0, opcode |-> "0", rc |-> FMRC_SUCCESS,
             ext |-> 0],
    ingress_port |-> 1,
    num_ports |-> U8(Clamp(ports, MAX_PORTS)),
    num_vcss |-> U8(Clamp(vcss, MAX_VCSS)),
    num_vppbs |-> U16(Clamp(vppbs, MAX_VPPBS)),
    num_decoders |-> 42,
    ports |-> [i \in 0..(Clamp(ports, MAX_PORTS) - 1) |-> DefaultPort(i)],
    vcss  |-> [i \in 0..(Clamp(vcss, MAX_VCSS) - 1)  |-> DefaultVcs(i)],
    dir |-> TRUE ]

\* ------------------------------------------------------ connect / disconnect
Min(a, b) == IF a < b THEN a ELSE b

\* A copy that would name the backing file before it exists
CopyNamesFile(d) ==
  [ Deref(d.mld) EXCEPT
      !.cfgspace = [i \in 0..(Deref(d.mld).num - 1) |-> d.cfgspace],
      !.file = TRUE ]

\* The port's copy of the device's MLD: memcpy of the struct, then one config
\* buffer per LD filled from the device's config space
CopyMld(d) ==
  [ Deref(d.mld) EXCEPT
      !.cfgspace = [i \in 0..(Deref(d.mld).num - 1) |-> d.cfgspace] ]

\* Outcomes of the file steps of state_connect_device (fopen, ftruncate, mmap)
IoOutcomes == {"ok", "fopen", "ftruncate", "mmap_failed"}

\* A connect that would copy the identity of the device and nothing else
ConnectKeepsState(p, d, io) ==
  [p EXCEPT !.dv = d.dv, !.dt = d.dt, !.cv = d.cv, !.prsnt = 1]

\* state_connect_device(p, d); io is what the file system answers in step 4.
\* mmap reports failure as MAP_FAILED, which the code's test against NULL
\* does not see: the port keeps that pointer and a file name.
state_connect_device(p, d, io) ==
  IF d.name = "" THEN p
  ELSE
    LET base == [ p EXCEPT
                    !.dv = d.dv, !.dt = d.dt, !.cv = d.cv,
                    !.ltssm = FMLS_L0, !.lane = 0, !.lane_rev = 0,
                    !.perst = 0, !.pwrctrl = 0,
                    !.ld = IF d.mld # NULL THEN U8(Deref(d.mld).num) ELSE 0,
                    !.state = IF d.rootport = 1 THEN FMPS_USP ELSE FMPS_DSP,
                    !.nlw = U8(Min(d.mlw, p.mlw) * 16),
                    !.cls = Min(d.mls, p.mls),
                    !.prsnt = 1,
                    !.cfgspace = d.cfgspace,
                    !.mld = IF d.mld # NULL THEN Ptr(CopyMld(d)) ELSE p.mld ]
        m == Deref(base.mld)
    IN  IF d.mld # NULL /\ Deref(d.mld).mmap = 1
        THEN CASE io = "ok" ->
                    [base EXCEPT !.mld = Ptr([m EXCEPT
                        !.memspace = "MAPPED", !.file = TRUE,
                        !.mem = [a \in 0..(m.memory_size - 1) |-> 0]])]
               [] io = "mmap_failed" ->
                    [base EXCEPT !.mld = Ptr([m EXCEPT
                        !.memspace = "MAP_FAILED", !.file = TRUE])]
               [] OTHER -> base
        ELSE base

\* What state_connect_device leaves without an owner. It assigns p->mld, and
\* through it memspace, without looking at what the port held: the
\* descriptor of an MLD connected before, and its mapping, are neither freed
\* nor unmapped, and nothing refers to them afterwards
ConnectOrphans(p, d) ==
  IF d.name = "" \/ d.mld = NULL \/ p.mld = NULL THEN {}
  ELSE {"mld"} \cup
       (IF Deref(p.mld).memspace = "MAPPED" THEN {"memspace"} ELSE {})

\* A disconnect that would leave the MLD with the port
DisconnectKeepsMld(p) ==
  [ p EXCEPT
      !.dv = 0, !.dt = 0, !.cv = 0, !.nlw = 0, !.cls = 0,
      !.ltssm = LTSSM_ZERO, !.lane = 0, !.lane_rev = 0, !.perst = 0,
      !.prsnt = 0, !.pwrctrl = 0, !.ld = 0 ]

\* state_disconnect_device(p)
state_disconnect_device(p) ==
  [ p EXCEPT
      !.dv = 0, !.dt = 0, !.cv = 0, !.nlw = 0, !.cls = 0,
      !.ltssm = LTSSM_ZERO, !.lane = 0, !.lane_rev = 0, !.perst = 0,
      !.prsnt = 0, !.pwrctrl = 0, !.ld = 0,
      !.cfgspace = CfgZero, !.device_name = "", !.mld = NULL ]

\* ------------------------------------------------------------------ loader
\* The devices[] entries whose name is `name` (the strcmp loop of
\* state_load_ports)
DevicesNamed(name) == {k \in 0..(num_devices - 1) : Device(k).name = name}

\* state_load_ports for one port: defaults, the port's config keys (device,
\* state), then the connect of the named device
state_load_port(p, c) ==
  LET p0 == [p EXCEPT !.state = FMPS_DSP, !.mlw = 16, !.mls = 5,
                      !.ltssm = FMLS_L0, !.lane_rev = 0, !.perst = 0,
                      !.prsnt = 0, !.pwrctrl = 0, !.ld = 0]
      p1 == [p0 EXCEPT !.device_name = c.device,
                       !.state = IF c.state # "" THEN c.state ELSE @]
  IN  IF p1.device_name # "" /\ DevicesNamed(p1.device_name) # {}
      THEN state_connect_device(p1,
             Device(CHOOSE k \in DevicesNamed(p1.device_name) : TRUE), "ok")
      ELSE p1

\* _parse_vcs / _parse_vppb: the keys are stored as given, nothing is
\* validated against num_ports or against the port's LD count
state_load_vcs(v, c) ==
  [v EXCEPT !.state = c.state, !.uspid = U8(c.uspid), !.num = U8(c.num),
            !.vppbs = [k \in 0..(MaxVppbs - 1) |->
                         [bind_status |-> c.vppbs[k].bind_status,
                          ppid |-> U8(c.vppbs[k].ppid),
                          ldid |-> U16(c.vppbs[k].ldid)]]]

\* state_load: switch keys, ports, VCSs
state_load(S, c) ==
  [S EXCEPT !.msg_rsp_limit_n = c.msg_rsp_limit_n,
            !.ports = [i \in 0..(NumPorts - 1) |->
                         state_load_port(S.ports[i], c.ports[i])],
            !.vcss  = [i \in 0..(NumVcss - 1) |->
                         state_load_vcs(S.vcss[i], c.vcss[i])]]

\* -------------------------------------------------------- configurations
NoPortCfg == [device |-> "", state |-> ""]
VcsCfg(vppbs) ==
  [v \in 0..(NumVcss - 1) |->
     [state |-> FMVS_ENABLED, uspid |-> 0, num |-> 2,
      vppbs |-> IF v = 0 THEN vppbs
                ELSE [k \in 0..(MaxVppbs - 1) |-> ZeroVppb]]]

\* The shape of the shipped config.yaml: a host on port 0, an MLD on port 1,
\* vPPB 0 bound to the whole port 0 and vPPB 1 to LD 0 of port 1; the ports
\* after them have no device, port 2 is configured DISABLED
SampleConfig ==
  [ msg_rsp_limit_n |-> 13,
    ports |-> [i \in 0..(NumPorts - 1) |->
                 IF i = 0 THEN [device |-> "cpu_5x16_2.0", state |-> ""]
                 ELSE IF i = 1 THEN [device |-> "mld_5x8_2.0_4G", state |-> ""]
                 ELSE IF i = 2 THEN [device |-> "", state |-> FMPS_DISABLED]
                 ELSE NoPortCfg],
    vcss |-> VcsCfg([k \in 0..(MaxVppbs - 1) |->
                 IF k = 0 THEN [bind_status |-> FMBS_BOUND_PORT,
                                ppid |-> 0, ldid |-> 0]
                 ELSE IF k = 1 THEN [bind_status |-> FMBS_BOUND_LD,
                                     ppid |-> 1, ldid |-> 0]
                 ELSE ZeroVppb]) ]

\* The same file with a vPPB 0 that names a port the switch does not have
StaleConfig ==
  [ SampleConfig EXCEPT
      !.vcss = VcsCfg([k \in 0..(MaxVppbs - 1) |->
                 IF k = 0 THEN [bind_status |-> FMBS_BOUND_LD,
                                ppid |-> NumPorts, ldid |-> 0]
                 ELSE SampleConfig.vcss[0].vppbs[k]]) ]

Configs == {SampleConfig, StaleConfig}

\* The shipped file with num_vppb lowered to 2 and its vPPB list kept: the
\* vPPBs from 2 on are still bound (to the whole port 0)
SpareConfig ==
  [ SampleConfig EXCEPT
      !.vcss = VcsCfg([k \in 0..(MaxVppbs - 1) |->
                 IF k >= 2 THEN [bind_status |-> FMBS_BOUND_PORT,
                                 ppid |-> 0, ldid |-> 0]
                 ELSE SampleConfig.vcss[0].vppbs[k]]) ]

\* ------------------------------------------------------- handler plumbing
\* What a handler's guarded region leaves behind: the model, the return code
\* and payload length it computed, the response object, and whether it went
\* through pthread_mutex_unlock (the `send:` label) or jumped past it to
\* `end:` with rv = 1
Send(S, rc, len, obj) ==
  [st |-> S, rc |-> rc, len |-> len, obj |-> obj, unlock |-> TRUE,
   fault |-> FALSE]
SkipUnlock(S) ==
  [st |-> S, rc |-> FMRC_INVALID_INPUT, len |-> 0, obj |-> <<>>,
   unlock |-> FALSE, fault |-> FALSE]
\* The guarded region dereferenced a null pointer: the process is gone
Fault(S) ==
  [st |-> S, rc |-> FMRC_INVALID_INPUT, len |-> 0, obj |-> <<>>,
   unlock |-> FALSE, fault |-> TRUE]

\* fmapi_serialize / emapi_serialize of a payload of n bytes: n, or a
\* negative value when the encoder fails
Serialize(n, ser) == IF ser THEN n ELSE -1

\* What the environment decides during one request (e): whether the outer
\* and the inner encoder succeed (ser, iser), what the file system answers
\* to a connect (io), and the bytes an uninitialised header holds (junk)

\* bit i of a byte-enable mask
Bit(x, i) == (x \div (2 ^ i)) % 2

\* A background-operation block that would say the operation still runs
BosRunning(opcode) ==
  [running |-> 1, pcnt |-> 0, opcode |-> opcode, rc |-> FMRC_SUCCESS,
   ext |-> 0]

\* The background-operation block a bind or unbind records
BosDone(opcode) ==
  [running |-> 0, pcnt |-> 100, opcode |-> opcode, rc |-> FMRC_SUCCESS,
   ext |-> 0]

\* A port test that would take single-LD Type-3 devices only
IsType3Only(p) == p.dt = FMDT_CXL_TYPE_3

IsType3(p) == p.dt = FMDT_CXL_TYPE_3 \/ p.dt = FMDT_CXL_TYPE_3_POOLED

\* ---------------------------------------------------------- ISC handlers
\* fmop_isc_bos, guarded region: the background operation status as it is
fmop_isc_bos(S, r, e) ==
  Send(S, FMRC_SUCCESS, Serialize(5, e.ser), S.bos)

\* fmop_isc_id, guarded region: the identity of the switch, which
\* state_init set and nothing changes
fmop_isc_id(S, r, e) ==
  Send(S, FMRC_SUCCESS, Serialize(17, e.ser), <<"vid", "did", "svid", "ssid", "sn", "size">>)

\* fmop_isc_msg_limit_get, guarded region
fmop_isc_msg_limit_get(S, r, e) ==
  Send(S, FMRC_SUCCESS, Serialize(1, e.ser), <<S.msg_rsp_limit_n>>)

\* A limit setter that would take 8..19 only
LimitSetBelow20(S, r, e) ==
  IF r.limit < 8 \/ r.limit >= 20
  THEN Send(S, FMRC_INVALID_INPUT, 0, <<>>)
  ELSE Send([S EXCEPT !.msg_rsp_limit_n = r.limit], FMRC_SUCCESS,
            Serialize(1, e.ser), <<r.limit>>)

\* fmop_isc_msg_limit_set, guarded region: an encoder failure leaves through
\* `goto end`, which is before the unlock
fmop_isc_msg_limit_set(S, r, e) ==
  IF r.limit < 8 \/ r.limit > 20
  THEN Send(S, FMRC_INVALID_INPUT, 0, <<>>)
  ELSE LET S1 == [S EXCEPT !.msg_rsp_limit_n = r.limit]
       IN  IF Serialize(1, e.ser) < 0
           THEN SkipUnlock(S1)
           ELSE Send(S1, FMRC_SUCCESS, Serialize(1, e.ser), <<r.limit>>)

\* ---------------------------------------------------------- PSC handlers
\* fmop_psc_id, guarded region: the static sizes, the ports that are not
\* DISABLED and the VCSs that are ENABLED as bit positions, and the number
\* of vPPBs below vcs.num that are not UNBOUND
\* A count that would take every vPPB slot of a VCS, used or not
BoundSlots(S) ==
  Cardinality({x \in (0..(S.num_vcss - 1)) \X (0..(MaxVppbs - 1)) :
                 S.vcss[x[1]].vppbs[x[2]].bind_status # FMBS_UNBOUND})

\* The count fmop_psc_id makes: the vPPBs below vcs.num that are not UNBOUND
BoundVppbs(S) ==
  Cardinality({x \in (0..(S.num_vcss - 1)) \X (0..(MaxVppbs - 1)) :
                 /\ x[2] < S.vcss[x[1]].num
                 /\ S.vcss[x[1]].vppbs[x[2]].bind_status # FMBS_UNBOUND})

fmop_psc_id(S, r, e) ==
  Send(S, FMRC_SUCCESS, Serialize(6, e.ser),
       [ingress_port |-> S.ingress_port, num_ports |-> S.num_ports,
        num_vcss |-> S.num_vcss, num_vppbs |-> S.num_vppbs,
        num_decoders |-> S.num_decoders,
        active_ports |-> {i \in 0..(S.num_ports - 1) :
                            S.ports[i].state # FMPS_DISABLED},
        active_vcss |-> {i \in 0..(S.num_vcss - 1) :
                           S.vcss[i].state = FMVS_ENABLED},
        active_vppbs |-> U16(BoundVppbs(S))])

\* What fmop_psc_port copies of a port into a response entry
PortInfo(p) ==
  [ppid |-> p.ppid, state |-> p.state, dv |-> p.dv, dt |-> p.dt,
   cv |-> p.cv, mlw |-> p.mlw, nlw |-> p.nlw, mls |-> p.mls, cls |-> p.cls,
   ltssm |-> p.ltssm, lane |-> p.lane, lane_rev |-> p.lane_rev,
   perst |-> p.perst, prsnt |-> p.prsnt, pwrctrl |-> p.pwrctrl,
   num_ld |-> p.ld]

\* fmop_psc_port, guarded region. r.ports is the request's list of port ids.
\* The entry of request position i is written to list[i] of the response
\* object, which lives on the handler's stack and is not cleared: the slot
\* of a skipped id keeps what the stack held (e.junk). num counts the ids
\* that were not skipped.
fmop_psc_port(S, r, e) ==
  LET n == Len(r.ports)
      hit(i) == r.ports[i] < S.num_ports
      num == Cardinality({i \in 1..n : hit(i)})
      list == [i \in 1..n |->
                 IF hit(i) THEN PortInfo(S.ports[r.ports[i]])
                 ELSE [stale |-> e.junk]]
  IN  Send(S, FMRC_SUCCESS, Serialize(1 + num, e.ser),
           [num |-> U8(num), list |-> list])

FMPO_ASSERT_PERST   == 0
FMPO_DEASSERT_PERST == 1
FMPO_RESET_PPB      == 2

\* A port control that would drive PERST the other way round
PortCtrlSwapped(S, r, e) ==
  IF r.ppid >= S.num_ports
  THEN Send(S, FMRC_INVALID_INPUT, 0, <<>>)
  ELSE Send([S EXCEPT !.ports[r.ppid].perst =
               IF r.opcode = FMPO_ASSERT_PERST THEN 0 ELSE 1],
            FMRC_SUCCESS, Serialize(0, e.ser), <<>>)

\* fmop_psc_port_ctrl, guarded region: the default arm of the switch is
\* `goto end`
fmop_psc_port_ctrl(S, r, e) ==
  IF r.ppid >= S.num_ports
  THEN Send(S, FMRC_INVALID_INPUT, 0, <<>>)
  ELSE CASE r.opcode = FMPO_ASSERT_PERST ->
              Send([S EXCEPT !.ports[r.ppid].perst = 1], FMRC_SUCCESS,
                   Serialize(0, e.ser), <<>>)
         [] r.opcode = FMPO_DEASSERT_PERST ->
              Send([S EXCEPT !.ports[r.ppid].perst = 0], FMRC_SUCCESS,
                   Serialize(0, e.ser), <<>>)
         [] r.opcode = FMPO_RESET_PPB ->
              Send(S, FMRC_SUCCESS, Serialize(0, e.ser), <<>>)
         [] OTHER -> SkipUnlock(S)

\* ---------------------------------------------------------- VSC handlers
\* A bind that would store the request's ldid as it came, so that a
\* whole-port bind keeps the sentinel 0xFFFF
BindKeepsLdid(r) ==
  [bind_status |-> IF r.ldid # LDID_NONE THEN FMBS_BOUND_LD
                   ELSE FMBS_BOUND_PORT,
   ppid |-> U8(r.ppid), ldid |-> U16(r.ldid)]

\* What fmop_vsc_bind writes into the vPPB
BindVppb(r) ==
  IF r.ldid # LDID_NONE
  THEN [bind_status |-> FMBS_BOUND_LD, ppid |-> U8(r.ppid),
        ldid |-> U16(r.ldid)]
  ELSE [bind_status |-> FMBS_BOUND_PORT, ppid |-> U8(r.ppid), ldid |-> 0]

\* fmop_vsc_bind, guarded region
fmop_vsc_bind(S, r, e) ==
  LET fail == Send(S, FMRC_INVALID_INPUT, 0, <<>>)
  IN
  IF r.vcsid >= S.num_vcss THEN fail
  ELSE IF r.vppbid >= S.vcss[r.vcsid].num THEN fail
  ELSE IF r.ppid >= S.num_ports THEN fail
  ELSE
    LET p == S.ports[r.ppid]
        b == S.vcss[r.vcsid].vppbs[r.vppbid]
    IN
    IF p.state = FMPS_DISABLED THEN fail
    ELSE IF r.ldid # LDID_NONE /\ ~IsType3(p) THEN fail
    ELSE IF p.ld > 0 /\ r.ldid = LDID_NONE THEN fail
    ELSE IF r.ldid # LDID_NONE /\ p.ld = 0 THEN fail
    ELSE IF b.bind_status # FMBS_UNBOUND THEN fail
    ELSE
      LET S1 == [S EXCEPT !.vcss[r.vcsid].vppbs[r.vppbid] = BindVppb(r),
                          !.ports[r.ppid].state = FMPS_DSP,
                          !.bos = BosDone("VSC_BIND")]
      IN  Send(S1, FMRC_BACKGROUND_OP_STARTED, Serialize(0, e.ser), <<>>)

\* An unbind that would clear the bind status only
UnbindKeepsPort(b) == [b EXCEPT !.bind_status = FMBS_UNBOUND]

\* What fmop_vsc_unbind writes into the vPPB
UnbindVppb(b) == [bind_status |-> FMBS_UNBOUND, ppid |-> 0, ldid |-> 0]

\* fmop_vsc_unbind, guarded region
fmop_vsc_unbind(S, r, e) ==
  LET fail == Send(S, FMRC_INVALID_INPUT, 0, <<>>)
  IN
  IF r.vcsid >= S.num_vcss THEN fail
  ELSE IF r.vppbid >= S.vcss[r.vcsid].num THEN fail
  ELSE
    LET b == S.vcss[r.vcsid].vppbs[r.vppbid]
    IN
    IF b.bind_status = FMBS_UNBOUND \/ b.bind_status = FMBS_INPROGRESS
    THEN fail
    ELSE IF b.ppid >= S.num_ports
    THEN Send([S EXCEPT !.vcss[r.vcsid].vppbs[r.vppbid].bind_status =
                 FMBS_UNBOUND], FMRC_INVALID_INPUT, 0, <<>>)
    ELSE IF S.ports[b.ppid].state \notin
              {FMPS_BINDING, FMPS_UNBINDING, FMPS_USP, FMPS_DSP}
    THEN fail
    ELSE
      LET S1 == [S EXCEPT !.vcss[r.vcsid].vppbs[r.vppbid] = UnbindVppb(b),
                          !.bos = BosDone("VSC_UNBIND")]
      IN  Send(S1, FMRC_BACKGROUND_OP_STARTED, Serialize(0, e.ser), <<>>)

\* fmop_vsc_info, guarded region. r.vcss is the request's list of VCS ids.
\* The loop ends at request position FM_MAX_VCS_PER_RSP; the block of request
\* position i is written to list[i] of the response object, which lives on
\* the handler's stack and is not cleared (e.junk for a skipped id). stop,
\* vppbid_start and vppbid_limit are unsigned: with vppbid_start above
\* vcs.num the difference stop - vppbid_start wraps to a value above any
\* limit. The vPPB entry k is written to list[k] of the block; a k at or
\* above MAX_VPPBS_PER_VCS reads what lies behind the array.
fmop_vsc_info(S, r, e) ==
  LET seen == Min(Len(r.vcss), FM_MAX_VCS_PER_RSP)
      hit(i) == r.vcss[i] < S.num_vcss
      num == Cardinality({i \in 1..seen : hit(i)})
      stop(v) == IF \/ v.num < r.vppbid_start
                    \/ r.vppbid_limit < v.num - r.vppbid_start
                 THEN r.vppbid_start + r.vppbid_limit
                 ELSE v.num
      blk(v) ==
        [vcsid |-> v.vcsid, state |-> v.state, uspid |-> v.uspid,
         total |-> v.num,
         num |-> U8(stop(v) - r.vppbid_start),
         list |-> [k \in r.vppbid_start..(stop(v) - 1) |->
                     IF k < MaxVppbs
                     THEN [status |-> v.vppbs[k].bind_status,
                           ppid |-> v.vppbs[k].ppid,
                           ldid |-> v.vppbs[k].ldid]
                     ELSE "STRAY"]]
      list == [i \in 1..seen |->
                 IF hit(i) THEN blk(S.vcss[r.vcss[i]])
                 ELSE [stale |-> e.junk]]
  IN  Send(S, FMRC_SUCCESS, Serialize(1 + num, e.ser),
           [num |-> U8(num), list |-> list])

\* ---------------------------------------------------------- MPC handlers
FMCT_READ  == 0
FMCT_WRITE == 1

\* The four byte lanes of a config access at register reg
CfgRead(buf, reg, fdbe) ==
  [i \in 0..3 |-> IF Bit(fdbe, i) = 1 THEN buf[reg + i] ELSE 0]
CfgWrite(buf, reg, fdbe, data) ==
  [a \in DOMAIN buf |->
     IF a >= reg /\ a < reg + 4 /\ Bit(fdbe, a - reg) = 1
     THEN data[a - reg] ELSE buf[a]]

\* fmop_psc_cfg, guarded region, without the QEMU option: the switch on the
\* access type has no default arm, so any other type goes on to the encode
\* and to rc = SUCCESS with the response data as the stack held it
fmop_psc_cfg(S, r, e) ==
  IF r.ppid >= S.num_ports
  THEN Send(S, FMRC_INVALID_INPUT, 0, <<>>)
  ELSE
    LET p == S.ports[r.ppid]
        reg == U16(r.ext * 256 + r.reg)
    IN  CASE r.type = FMCT_READ ->
               Send(S, FMRC_SUCCESS, Serialize(4, e.ser),
                    CfgRead(p.cfgspace, reg, r.fdbe))
          [] r.type = FMCT_WRITE ->
               Send([S EXCEPT !.ports[r.ppid].cfgspace =
                       CfgWrite(@, reg, r.fdbe, r.data)],
                    FMRC_SUCCESS, Serialize(4, e.ser),
                    [i \in 0..3 |-> e.junk])
          [] OTHER ->
               Send(S, FMRC_SUCCESS, Serialize(4, e.ser),
                    [i \in 0..3 |-> e.junk])

\* fmop_mpc_cfg, guarded region: the default arm of the switch on the
\* access type is `goto end`
fmop_mpc_cfg(S, r, e) ==
  LET fail == Send(S, FMRC_INVALID_INPUT, 0, <<>>)
  IN
  IF r.ppid >= S.num_ports THEN fail
  ELSE
    LET p == S.ports[r.ppid]
        reg == r.ext * 256 + r.reg
    IN
    IF ~IsType3(p) THEN fail
    ELSE IF r.ldid >= p.ld THEN fail
    ELSE
      CASE r.type = FMCT_READ ->
             Send(S, FMRC_SUCCESS, Serialize(4, e.ser),
                  CfgRead(Deref(p.mld).cfgspace[r.ldid], reg, r.fdbe))
        [] r.type = FMCT_WRITE ->
             Send([S EXCEPT !.ports[r.ppid].mld =
                     Ptr([Deref(p.mld) EXCEPT !.cfgspace[r.ldid] =
                            CfgWrite(@, reg, r.fdbe, r.data)])],
                  FMRC_SUCCESS, Serialize(4, e.ser), <<>>)
        [] OTHER -> SkipUnlock(S)

\* A copy that would store the first byte only
MemStoreFirst(mem, at, data) ==
  [a \in DOMAIN mem |-> IF a = at[1] THEN data[1] ELSE mem[a]]

\* The memcpy of an MPC_MEM write: data[i] goes to the byte at[i]
MemStore(mem, at, data) ==
  [a \in DOMAIN mem |->
     IF \E i \in DOMAIN at : at[i] = a
     THEN data[CHOOSE i \in DOMAIN at : at[i] = a]
     ELSE mem[a]]

\* fmop_mpc_mem, guarded region. base, max, ld_size and the sum
\* offset + len are unsigned 64-bit values (modulus MemWord here). The
\* switch on the access type has no default arm. A copy that leaves the
\* mapping, or goes through a pointer that is MAP_FAILED, either ends the
\* process or moves bytes that are not the device's (e.junk decides).
fmop_mpc_mem(S, r, e) ==
  LET fail == Send(S, FMRC_INVALID_INPUT, 0, <<>>)
  IN
  IF r.ppid >= S.num_ports THEN fail
  ELSE
    LET p == S.ports[r.ppid] IN
    IF ~IsType3(p) THEN fail
    ELSE IF r.ldid >= p.ld THEN fail
    ELSE IF p.mld = NULL \/ Deref(p.mld).memspace = "NULL"
    THEN Send(S, FMRC_UNSUPPORTED, 0, <<>>)
    ELSE IF r.len > MemMaxLen THEN fail
    ELSE
      LET m == Deref(p.mld)
          granularity == CASE m.granularity = 0 -> MemGranule
                           [] m.granularity = 1 -> 2 * MemGranule
                           [] m.granularity = 2 -> 4 * MemGranule
                           [] OTHER -> 1
          base == (granularity * m.rng1[r.ldid]) % MemWord
          max == (granularity * (m.rng2[r.ldid] + 1)) % MemWord
          ld_size == (max - base + MemWord) % MemWord
          at == [i \in 1..r.len |-> (base + r.offset + i - 1) % MemWord]
          mapped == /\ m.memspace = "MAPPED"
                    /\ \A i \in 1..r.len : at[i] < m.memory_size
      IN
      IF (r.offset + r.len) % MemWord >= ld_size THEN fail
      ELSE
        CASE r.type = FMCT_READ ->
               IF mapped
               THEN Send(S, FMRC_SUCCESS, Serialize(r.len, e.ser),
                         [len |-> r.len,
                          data |-> [i \in 1..r.len |-> m.mem[at[i]]]])
               ELSE IF e.junk = FMRC_SUCCESS THEN Fault(S)
               ELSE Send(S, FMRC_SUCCESS, Serialize(r.len, e.ser),
                         [len |-> r.len,
                          data |-> [i \in 1..r.len |-> "STRAY"]])
          [] r.type = FMCT_WRITE ->
               IF mapped
               THEN Send([S EXCEPT !.ports[r.ppid].mld =
                            Ptr([m EXCEPT !.mem = MemStore(@, at, r.data)])],
                         FMRC_SUCCESS, Serialize(0, e.ser), <<>>)
               ELSE IF e.junk = FMRC_SUCCESS THEN Fault(S)
               ELSE Send(S, FMRC_SUCCESS, Serialize(0, e.ser), <<>>)
          [] OTHER -> Send(S, FMRC_SUCCESS, Serialize(0, e.ser), <<>>)

\* ---------------------------------------------------------- MCC handlers
\* What an inner handler hands back to fmop_mpc_tmc: the port, the inner
\* return code and payload length, the inner response object; `fault` when
\* the handler dereferences p->mld although it is NULL
Inner(p, rc, len, obj) ==
  [p |-> p, rc |-> rc, len |-> len, obj |-> obj, fault |-> FALSE]
InnerFault(p) ==
  [p |-> p, rc |-> FMRC_INVALID_INPUT, len |-> 0, obj |-> <<>>,
   fault |-> TRUE]

\* fmop_mcc_get_ld_alloc
fmop_mcc_get_ld_alloc(p, r, ser) ==
  IF p.mld = NULL THEN Inner(p, FMRC_INVALID_INPUT, 0, <<>>)
  ELSE
    LET m == Deref(p.mld) IN
    IF r.start > m.num THEN Inner(p, FMRC_INVALID_INPUT, 0, <<>>)
    ELSE
      LET end == IF r.limit < m.num - r.start THEN r.start + r.limit
                 ELSE m.num
          list == [i \in 1..(end - r.start) |->
                     [rng1 |-> m.rng1[r.start + i - 1],
                      rng2 |-> m.rng2[r.start + i - 1]]]
      IN  Inner(p, FMRC_SUCCESS, Serialize(4 + Len(list), ser),
                [total |-> m.num, granularity |-> m.granularity,
                 start |-> r.start, num |-> Len(list), list |-> list])

\* fmop_mcc_set_ld_alloc: the `send:` block reads the ranges back from
\* p->mld on the rejection paths too
fmop_mcc_set_ld_alloc(p, r, ser) ==
  LET n == Len(r.list)
      ok == /\ p.mld # NULL
            /\ n <= Deref(p.mld).num
            /\ r.start <= Deref(p.mld).num
            /\ r.start + n <= Deref(p.mld).num
  IN
  IF p.mld = NULL /\ n > 0 THEN InnerFault(p)
  ELSE IF p.mld = NULL THEN Inner(p, FMRC_INVALID_INPUT, Serialize(2, ser),
                                  [num |-> 0, start |-> r.start, list |-> <<>>])
  ELSE
    LET m == Deref(p.mld)
        m1 == IF ok
              THEN [m EXCEPT
                      !.rng1 = [i \in DOMAIN @ |->
                                  IF i >= r.start /\ i < r.start + n
                                  THEN r.list[i - r.start + 1].rng1 ELSE @[i]],
                      !.rng2 = [i \in DOMAIN @ |->
                                  IF i >= r.start /\ i < r.start + n
                                  THEN r.list[i - r.start + 1].rng2 ELSE @[i]]]
              ELSE m
    IN
    Inner([p EXCEPT !.mld = Ptr(m1)],
          IF ok THEN FMRC_SUCCESS ELSE FMRC_INVALID_INPUT,
          Serialize(2 + n, ser),
          [num |-> n, start |-> r.start,
           list |-> [i \in 1..n |->
                       [rng1 |-> m1.rng1[r.start + i - 1],
                        rng2 |-> m1.rng2[r.start + i - 1]]]])

\* fmop_mcc_set_qos_alloc: as fmop_mcc_set_ld_alloc, the `send:` block reads
\* the allocations back from p->mld on the rejection paths too
fmop_mcc_set_qos_alloc(p, r, ser) ==
  LET n == Len(r.list)
  IN
  IF p.mld = NULL /\ n > 0 THEN InnerFault(p)
  ELSE IF p.mld = NULL THEN Inner(p, FMRC_INVALID_INPUT, Serialize(2, ser),
                                  [num |-> 0, start |-> r.start, list |-> <<>>])
  ELSE
    LET m == Deref(p.mld)
        ok == n <= m.num /\ r.start + n <= m.num
        m1 == IF ok
              THEN [m EXCEPT
                      !.alloc_bw = [i \in DOMAIN @ |->
                                      IF i >= r.start /\ i < r.start + n
                                      THEN r.list[i - r.start + 1] ELSE @[i]]]
              ELSE m
    IN
    Inner([p EXCEPT !.mld = Ptr(m1)],
          IF ok THEN FMRC_SUCCESS ELSE FMRC_INVALID_INPUT,
          Serialize(2 + n, ser),
          [num |-> n, start |-> r.start,
           list |-> [i \in 1..n |-> m1.alloc_bw[r.start + i - 1]]])

\* fmop_mcc_set_qos_ctrl: the seven fields of the request are stored in
\* p->mld as they came; without an MLD it jumps to `send:`, which reads p->mld
fmop_mcc_set_qos_ctrl(p, r, ser) ==
  IF p.mld = NULL THEN InnerFault(p)
  ELSE
    LET m1 == [Deref(p.mld) EXCEPT
                 !.epc_en = r.epc_en, !.ttr_en = r.ttr_en,
                 !.egress_mod_pcnt = r.egress_mod_pcnt,
                 !.egress_sev_pcnt = r.egress_sev_pcnt,
                 !.sample_interval = r.sample_interval,
                 !.rcb = r.rcb, !.comp_interval = r.comp_interval]
    IN  Inner([p EXCEPT !.mld = Ptr(m1)], FMRC_SUCCESS, Serialize(7, ser),
              [epc_en |-> m1.epc_en, ttr_en |-> m1.ttr_en,
               egress_mod_pcnt |-> m1.egress_mod_pcnt,
               egress_sev_pcnt |-> m1.egress_sev_pcnt,
               sample_interval |-> m1.sample_interval,
               rcb |-> m1.rcb, comp_interval |-> m1.comp_interval])

\* fmop_mcc_get_qos_ctrl
fmop_mcc_get_qos_ctrl(p, r, ser) ==
  IF p.mld = NULL THEN Inner(p, FMRC_INVALID_INPUT, 0, <<>>)
  ELSE
    LET m == Deref(p.mld)
    IN  Inner(p, FMRC_SUCCESS, Serialize(7, ser),
              [epc_en |-> m.epc_en, ttr_en |-> m.ttr_en,
               egress_mod_pcnt |-> m.egress_mod_pcnt,
               egress_sev_pcnt |-> m.egress_sev_pcnt,
               sample_interval |-> m.sample_interval,
               rcb |-> m.rcb, comp_interval |-> m.comp_interval])

\* A getter that would emit the requested count whatever the MLD holds
GetQosAllocUncut(p, r, ser) ==
  Inner(p, FMRC_SUCCESS, Serialize(2 + r.num, ser),
        [start |-> r.start, num |-> r.num,
         list |-> [i \in 1..r.num |->
                     IF r.start + i - 1 < MaxLd
                     THEN Deref(p.mld).alloc_bw[r.start + i - 1]
                     ELSE "STRAY"]])

\* fmop_mcc_get_qos_alloc: start is not compared with mld->num; the count
\* is cut to mld->num - start when that difference is below it, and stored
\* in a __u8.  An entry read past the end of alloc_bw[] is "STRAY"
fmop_mcc_get_qos_alloc(p, r, ser) ==
  IF p.mld = NULL THEN Inner(p, FMRC_INVALID_INPUT, 0, <<>>)
  ELSE
    LET m == Deref(p.mld)
        n == IF m.num - r.start < r.num THEN U8(m.num - r.start + 256)
             ELSE r.num
    IN  Inner(p, FMRC_SUCCESS, Serialize(2 + n, ser),
              [start |-> r.start, num |-> n,
               list |-> [i \in 1..n |->
                           IF r.start + i - 1 < MaxLd
                           THEN m.alloc_bw[r.start + i - 1] ELSE "STRAY"]])

\* A getter that would report every LD as unlimited
GetQosLimitUnset(p, r, ser) ==
  Inner(p, FMRC_SUCCESS, Serialize(2 + r.num, ser),
        [start |-> r.start, num |-> r.num,
         list |-> [i \in 1..r.num |-> 255]])

\* fmop_mcc_get_qos_limit: the same over bw_limit[]
fmop_mcc_get_qos_limit(p, r, ser) ==
  IF p.mld = NULL THEN Inner(p, FMRC_INVALID_INPUT, 0, <<>>)
  ELSE
    LET m == Deref(p.mld)
        n == IF m.num - r.start < r.num THEN U8(m.num - r.start + 256)
             ELSE r.num
    IN  Inner(p, FMRC_SUCCESS, Serialize(2 + n, ser),
              [start |-> r.start, num |-> n,
               list |-> [i \in 1..n |->
                           IF r.start + i - 1 < MaxLd
                           THEN m.bw_limit[r.start + i - 1] ELSE "STRAY"]])

\* fmop_mcc_set_qos_limit: as fmop_mcc_set_qos_alloc, over bw_limit[]
fmop_mcc_set_qos_limit(p, r, ser) ==
  LET n == Len(r.list)
  IN
  IF p.mld = NULL /\ n > 0 THEN InnerFault(p)
  ELSE IF p.mld = NULL THEN Inner(p, FMRC_INVALID_INPUT, Serialize(2, ser),
                                  [num |-> 0, start |-> r.start, list |-> <<>>])
  ELSE
    LET m == Deref(p.mld)
        ok == n <= m.num /\ r.start + n <= m.num
        m1 == IF ok
              THEN [m EXCEPT
                      !.bw_limit = [i \in DOMAIN @ |->
                                      IF i >= r.start /\ i < r.start + n
                                      THEN r.list[i - r.start + 1] ELSE @[i]]]
              ELSE m
    IN
    Inner([p EXCEPT !.mld = Ptr(m1)],
          IF ok THEN FMRC_SUCCESS ELSE FMRC_INVALID_INPUT,
          Serialize(2 + n, ser),
          [num |-> n, start |-> r.start,
           list |-> [i \in 1..n |-> m1.bw_limit[r.start + i - 1]]])

\* fmop_mcc_get_qos_stat
fmop_mcc_get_qos_stat(p, r, ser) ==
  IF p.mld = NULL THEN Inner(p, FMRC_INVALID_INPUT, 0, <<>>)
  ELSE Inner(p, FMRC_SUCCESS, Serialize(1, ser),
             [bp_avg_pcnt |-> Deref(p.mld).bp_avg_pcnt])

\* fmop_mcc_info
fmop_mcc_info(p, r, ser) ==
  IF p.mld = NULL THEN Inner(p, FMRC_INVALID_INPUT, 0, <<>>)
  ELSE
    LET m == Deref(p.mld)
    IN  Inner(p, FMRC_SUCCESS, Serialize(11, ser),
              [size |-> m.memory_size, num |-> m.num, epc |-> m.epc,
               ttr |-> m.ttr])

\* The inner message of a tunnelled command: dispatch on its opcode.  For a
\* non-request and for an unknown opcode the code fills rsp.hdr but encodes
\* dst.hdr, which was never written: the inner header is whatever the stack
\* held (e.junk)
MccDispatch(p, msg, e) ==
  IF msg.category # FMMT_REQ THEN Inner(p, e.junk, 0, <<>>)
  ELSE CASE msg.opcode = "MCC_ALLOC_GET" ->
              fmop_mcc_get_ld_alloc(p, msg, e.iser)
         [] msg.opcode = "MCC_ALLOC_SET" ->
              fmop_mcc_set_ld_alloc(p, msg, e.iser)
         [] msg.opcode = "MCC_QOS_ALLOC_SET" ->
              fmop_mcc_set_qos_alloc(p, msg, e.iser)
         [] msg.opcode = "MCC_QOS_CTRL_SET" ->
              fmop_mcc_set_qos_ctrl(p, msg, e.iser)
         [] msg.opcode = "MCC_QOS_CTRL_GET" ->
              fmop_mcc_get_qos_ctrl(p, msg, e.iser)
         [] msg.opcode = "MCC_QOS_ALLOC_GET" ->
              fmop_mcc_get_qos_alloc(p, msg, e.iser)
         [] msg.opcode = "MCC_QOS_LIMIT_GET" ->
              fmop_mcc_get_qos_limit(p, msg, e.iser)
         [] msg.opcode = "MCC_QOS_LIMIT_SET" ->
              fmop_mcc_set_qos_limit(p, msg, e.iser)
         [] msg.opcode = "MCC_INFO" ->
              fmop_mcc_info(p, msg, e.iser)
         [] msg.opcode = "MCC_QOS_STAT" ->
              fmop_mcc_get_qos_stat(p, msg, e.iser)
         [] OTHER -> Inner(p, e.junk, 0, <<>>)

MCMT_CXLCCI == "CXLCCI"

\* fmop_mpc_tmc up to the inner dispatch: TRUE when the request is rejected
\* before the inner message is looked at
TmcRejected(S, r) ==
  \/ r.type # MCMT_CXLCCI
  \/ r.ppid >= S.num_ports
  \/ ~IsType3(S.ports[r.ppid])

\* fmop_mpc_tmc from the inner dispatch on (label `sub:` and the encode)
TmcInner(S, r, e) ==
  LET in == MccDispatch(S.ports[r.ppid], r.msg, e)
  IN  IF in.fault THEN Fault(S)
      ELSE Send([S EXCEPT !.ports[r.ppid] = in.p], FMRC_SUCCESS,
                Serialize(2 + (IF in.len > 0 THEN in.len ELSE 0), e.ser),
                [type |-> r.type, rc |-> in.rc, len |-> in.len,
                 obj |-> in.obj])

\* fmop_mpc_tmc, guarded region
fmop_mpc_tmc(S, r, e) ==
  IF TmcRejected(S, r) THEN Send(S, FMRC_INVALID_INPUT, 0, <<>>)
  ELSE TmcInner(S, r, e)

\* ------------------------------------------------- emulator API handlers
\* emop_conn_dev, guarded region (ppid = hdr.a, dev = hdr.b)
emop_conn_dev(S, r, e) ==
  IF r.ppid >= S.num_ports THEN Send(S, FMRC_INVALID_INPUT, 0, <<>>)
  ELSE IF r.dev >= num_devices THEN Send(S, FMRC_INVALID_INPUT, 0, <<>>)
  ELSE IF Device(r.dev).name = "" THEN Send(S, FMRC_INVALID_INPUT, 0, <<>>)
  ELSE Send([S EXCEPT !.ports[r.ppid] =
               state_connect_device(@, Device(r.dev), e.io)],
            EMRC_SUCCESS, Serialize(0, e.ser), <<>>)

\* emop_disconn_dev, guarded region (ppid = hdr.a, all = hdr.b); start, end
\* and the loop index are __u8
emop_disconn_dev(S, r, e) ==
  LET start == IF r.all # 0 THEN 0 ELSE r.ppid
      end   == IF r.all # 0 THEN S.num_ports ELSE U8(r.ppid + 1)
  IN  IF start >= S.num_ports THEN Send(S, FMRC_INVALID_INPUT, 0, <<>>)
      ELSE Send([S EXCEPT !.ports = [i \in DOMAIN @ |->
                   IF i >= start /\ i < end /\ @[i].prsnt = 1
                   THEN state_disconnect_device(@[i]) ELSE @[i]]],
                EMRC_SUCCESS, Serialize(0, e.ser), <<>>)

\* emop_list_dev, guarded region (num_requested = hdr.a, start_num = hdr.b,
\* both __u8); each listed device takes its id, a length byte and its name
emop_list_dev(S, r, e) ==
  LET n0 == IF r.num = 0 THEN U8(num_devices - r.start + 256) ELSE r.num
      n  == IF r.start + n0 >= num_devices
            THEN U8(num_devices - r.start + 256) ELSE n0
      list == [i \in 1..n |->
                 [id |-> r.start + i - 1,
                  named |-> Device(r.start + i - 1).name # ""]]
  IN  IF r.start >= num_devices THEN Send(S, FMRC_INVALID_INPUT, 0, <<>>)
      ELSE Send(S, EMRC_SUCCESS, 2 * n, list)

\* ----------------------------------------------------------- dispatchers
\* The opcodes fmapi_handler switches on, and one it does not know
FmOps == {"ISC_BOS", "ISC_MSG_LIMIT_GET", "ISC_MSG_LIMIT_SET", "PSC_ID",
          "PSC_PORT_CTRL", "VSC_BIND", "VSC_UNBIND", "MPC_TMC", "MPC_CFG"}
FmUnknownOp == "FM_UNKNOWN"

\* The opcodes emapi_handler switches on; EM_OTHER takes the default arm
EMOP_EVENT      == "EVENT"
EMOP_LIST_DEV   == "LIST_DEV"
EMOP_CONN_DEV   == "CONN_DEV"
EMOP_DISCON_DEV == "DISCON_DEV"
EmOther         == "EM_OTHER"
EmLockedOps == {EMOP_LIST_DEV, EMOP_CONN_DEV, EMOP_DISCON_DEV}
EmOps == EmLockedOps \cup {EMOP_EVENT, EmOther}

\* An event generator that would leave its mark on the vPPB it names
AerMarksVppb(S, r, e) ==
  IF r.vcsid >= S.num_vcss THEN Send(S, FMRC_INVALID_INPUT, 0, <<>>)
  ELSE IF r.vppbid >= S.vcss[r.vcsid].num
  THEN Send(S, FMRC_INVALID_INPUT, 0, <<>>)
  ELSE Send([S EXCEPT !.vcss[r.vcsid].vppbs[r.vppbid].bind_status =
               FMBS_INPROGRESS], FMRC_SUCCESS, Serialize(0, e.ser), <<>>)

\* fmop_vsc_aer, guarded region: the event is announced and nothing else
fmop_vsc_aer(S, r, e) ==
  IF r.vcsid >= S.num_vcss THEN Send(S, FMRC_INVALID_INPUT, 0, <<>>)
  ELSE IF r.vppbid >= S.vcss[r.vcsid].num
  THEN Send(S, FMRC_INVALID_INPUT, 0, <<>>)
  ELSE Send(S, FMRC_SUCCESS, Serialize(0, e.ser), <<>>)

\* The guarded region of the handler the switch selects
FmHandler(op, S, r, e) ==
  CASE op = "ISC_BOS"           -> fmop_isc_bos(S, r, e)
    [] op = "PSC_ID"            -> fmop_psc_id(S, r, e)
    [] op = "ISC_MSG_LIMIT_GET" -> fmop_isc_msg_limit_get(S, r, e)
    [] op = "ISC_MSG_LIMIT_SET" -> fmop_isc_msg_limit_set(S, r, e)
    [] op = "PSC_PORT_CTRL"     -> fmop_psc_port_ctrl(S, r, e)
    [] op = "VSC_BIND"          -> fmop_vsc_bind(S, r, e)
    [] op = "VSC_UNBIND"        -> fmop_vsc_unbind(S, r, e)
    [] op = "MPC_TMC"           -> fmop_mpc_tmc(S, r, e)
    [] op = "MPC_CFG"           -> fmop_mpc_cfg(S, r, e)
    [] op = "PSC_PORT"          -> fmop_psc_port(S, r, e)
    [] op = "PSC_CFG"           -> fmop_psc_cfg(S, r, e)
    [] op = "VSC_INFO"          -> fmop_vsc_info(S, r, e)
    [] op = "MPC_MEM"           -> fmop_mpc_mem(S, r, e)
    [] op = "ISC_ID"            -> fmop_isc_id(S, r, e)
    [] op = "VSC_AER"           -> fmop_vsc_aer(S, r, e)

EmHandler(op, S, r, e) ==
  CASE op = EMOP_LIST_DEV   -> emop_list_dev(S, r, e)
    [] op = EMOP_CONN_DEV   -> emop_conn_dev(S, r, e)
    [] op = EMOP_DISCON_DEV -> emop_disconn_dev(S, r, e)

Handler(t, op, S, r, e) ==
  IF t = "fm" THEN FmHandler(op, S, r, e) ELSE EmHandler(op, S, r, e)

\* ------------------------------------------------------ request universe
NoEnv == [ser |-> TRUE, iser |-> TRUE, io |-> "ok", junk |-> FMRC_SUCCESS]
SerEnvs == {[NoEnv EXCEPT !.ser = b] : b \in BOOLEAN}
IoEnvs  == {[NoEnv EXCEPT !.io = o] : o \in IoOutcomes}
JunkEnvs == {[NoEnv EXCEPT !.junk = j] :
               j \in {FMRC_SUCCESS, FMRC_UNSUPPORTED}}

\* Inner messages of a tunnelled command
TmcMsgs ==
  { [category |-> FMMT_REQ, opcode |-> "MCC_ALLOC_GET", start |-> 0,
     limit |-> 1],
    [category |-> FMMT_REQ, opcode |-> "MCC_ALLOC_SET", start |-> 1,
     list |-> <<[rng1 |-> 1, rng2 |-> 3]>>],
    [category |-> FMMT_REQ, opcode |-> "MCC_ALLOC_SET", start |-> 2,
     list |-> <<[rng1 |-> 4, rng2 |-> 5]>>],
    [category |-> FMMT_RESP, opcode |-> "MCC_ALLOC_GET", start |-> 0,
     limit |-> 1],
    [category |-> FMMT_REQ, opcode |-> "MCC_OTHER", start |-> 0] }

\* Port ids a request names: the host port, the MLD port, the DISABLED
\* port, and one past the last port
PpidArgs == {0, 1, 2, NumPorts}

\* Request payloads of the serial dispatcher, per opcode
FmArgs(op) ==
  CASE op \in {"ISC_BOS", "ISC_MSG_LIMIT_GET", "PSC_ID"} -> {[none |-> 0]}
    [] op = "ISC_MSG_LIMIT_SET" -> [limit : {7, 13, 21}]
    [] op = "PSC_PORT_CTRL" ->
         [ppid : {1, NumPorts},
          opcode : {FMPO_DEASSERT_PERST, FMPO_RESET_PPB, 3}]
    [] op = "VSC_BIND" ->
         {r \in [vcsid : {0, NumVcss}, vppbid : {1, 2}, ppid : PpidArgs,
                 ldid : {0, 2, LDID_NONE}] :
            \/ /\ r.vcsid = 0 /\ r.vppbid = 1
               /\ \/ r.ppid = 1
                  \/ r.ldid = LDID_NONE
                  \/ r.ppid = 0 /\ r.ldid = 0
            \/ /\ r.vcsid # 0 \/ r.vppbid # 1
               /\ r.vcsid = 0 \/ r.vppbid = 1
               /\ r.ppid = 1 /\ r.ldid = 0}
    [] op = "VSC_UNBIND" ->
         {r \in [vcsid : {0, NumVcss}, vppbid : {0, 1, 2}] :
            r.vcsid = 0 \/ r.vppbid = 1}
    [] op = "MPC_TMC" ->
         {r \in [type : {MCMT_CXLCCI, "OTHER"}, ppid : {1, NumPorts},
                 msg : {m \in TmcMsgs : m.start # 1}] :
            (r.type = MCMT_CXLCCI /\ r.ppid = 1) \/ r.msg.opcode = "MCC_OTHER"}
    [] op = "MPC_CFG" ->
         {r \in [ppid : {1, NumPorts}, ldid : {0, 2}, type : {FMCT_READ, 2},
                 ext : {0}, reg : {0}, fdbe : {1},
                 data : {[i \in 0..3 |-> 7]}] :
            r.ppid = 1 \/ (r.ldid = 0 /\ r.type = FMCT_READ)}

EmArgs(op) ==
  CASE op = EMOP_LIST_DEV   -> [num : {0, 2}, start : {1, num_devices}]
    [] op = EMOP_CONN_DEV   ->
         {r \in [ppid : {1, NumPorts}, dev : 1..num_devices] :
            r.ppid = 1 \/ r.dev = 1}
    [] op = EMOP_DISCON_DEV -> [ppid : {1, NumPorts}, all : {0, 1}]

\* The payloads the two concurrent dispatcher threads are fed: one or two per
\* opcode, an accepted one and one that takes the handler's other exit
ThreadArgs(t, op) ==
  CASE op \in {"ISC_BOS", "ISC_MSG_LIMIT_GET", "PSC_ID"} -> {[none |-> 0]}
    [] op = "ISC_MSG_LIMIT_SET" -> [limit : {8, 21}]
    [] op = "PSC_PORT_CTRL" ->
         [ppid : {1}, opcode : {FMPO_ASSERT_PERST, 3}]
    [] op = "VSC_BIND" ->
         [vcsid : {0}, vppbid : {1}, ppid : {1}, ldid : {1}]
    [] op = "VSC_UNBIND" -> [vcsid : {0}, vppbid : {1}]
    [] op = "MPC_TMC" ->
         [type : {MCMT_CXLCCI, "OTHER"}, ppid : {1}, msg : {<<>>}]
    [] op = "MPC_CFG" ->
         [ppid : {1}, ldid : {0}, type : {FMCT_READ, 2}, ext : {0},
          reg : {0}, fdbe : {1}, data : {[i \in 0..3 |-> 7]}]
    [] op = EMOP_LIST_DEV   -> [num : {0}, start : {1, num_devices}]
    [] op = EMOP_CONN_DEV   -> [ppid : {1}, dev : {1, num_devices}]
    [] op = EMOP_DISCON_DEV -> [ppid : {1, NumPorts}, all : {0}]

ThreadEnvs(op) == IF op = "MPC_TMC" THEN JunkEnvs \cup SerEnvs ELSE SerEnvs

\* What the environment can decide during a request of this opcode
Envs(op) ==
  CASE op = EMOP_CONN_DEV -> {e \in IoEnvs : e.io \in {"ok", "fopen"}}
                               \cup SerEnvs
    [] op = "MPC_TMC"     -> JunkEnvs \cup SerEnvs
    [] op \in {"ISC_BOS", "ISC_MSG_LIMIT_GET", "PSC_ID", "MPC_CFG",
               EMOP_LIST_DEV} -> {NoEnv}
    [] OTHER              -> SerEnvs

\* ------------------------------------------------------------------ state
VARIABLES
  cxls,   \* the switch model (struct cxl_switch_state)
  mtx,    \* owner of cxls->mtx: "free", or the thread that holds it
  th,     \* per dispatcher thread: where it is in the handler pipeline
  tmq,    \* the transport's outbound queue (m->tmq)
  acq,    \* the transport's completion-code queue (m->acq)
  last    \* the request handled last by the serial dispatcher, with its answer

vars == <<cxls, mtx, th, tmq, acq, last>>

\* One thread runs fmapi_handler, one runs emapi_handler
Threads == {"fm", "em"}

\* A thread between two frames.  op is the opcode the thread is in the
\* guarded region of (from the switch of the dispatcher to the unlock)
Idle ==
  [pc |-> "idle", op |-> "NONE", ppid |-> 0, rv |-> 0, send |-> FALSE,
   nlock |-> 0, nunlock |-> 0, enq |-> 0]

NoRequest ==
  [api |-> "none", op |-> "NONE", vppb |-> <<>>, rc |-> "NONE", len |-> 0,
   queue |-> "none", locked |-> FALSE, undoes |-> FALSE]

\* state_init, then state_load of a config file
Loaded(c) == state_load(state_init(NumPorts, NumVcss, NumVcss * MaxVppbs), c)

InitWith(cfgs) ==
  /\ cxls \in {Loaded(c) : c \in cfgs}
  /\ mtx = "free"
  /\ th = [t \in Threads |-> Idle]
  /\ tmq = <<>>
  /\ acq = <<>>
  /\ last = NoRequest

Init == InitWith({SampleConfig})

\* ---------------------------------------------------------------- mutex
\* A mutex operation without effect
MutexUntouched(m, t) == m

\* pthread_mutex_lock returns to thread t only when nobody holds the mutex;
\* a second lock by the holder itself never returns (default mutex type)
pthread_mutex_lock(m, t) == t
pthread_mutex_unlock(m, t) == "free"

\* --------------------------------------------------------------- queues
\* A frame that would always be handed over as completed without error
FrameClean(t, cc) == [completion_code |-> 0]

\* The mctp_action handed to the transport, reduced to what the transport
\* reads of it: its completion code
Frame(t, cc) == [completion_code |-> cc]
pq_push(q, f) == Append(q, f)
Room == Len(tmq) + Len(acq) < MaxQueue
Alive == \A t \in Threads : th[t].pc # "crashed"

\* ------------------------------------------------------ threaded pipeline
\* fmapi_handler up to the guarded region of the selected handler.  hdr is
\* what the header decode returns ("neg", "zero" or "ok"), cat the category
\* it finds, early whether the handler's own prologue (response buffer,
\* payload decode) fails
Dispatch_fm(op, hdr, cat, early) ==
  /\ Alive /\ th["fm"].pc = "idle"
  /\ th' = [th EXCEPT !["fm"] =
       IF hdr = "zero" THEN [Idle EXCEPT !.pc = "ret"]
       ELSE IF hdr = "neg" \/ cat # FMMT_REQ \/ op \notin FmOps
       THEN [Idle EXCEPT !.pc = "dpush", !.rv = 1]
       ELSE IF early THEN [Idle EXCEPT !.pc = "hret", !.rv = 1]
       ELSE [Idle EXCEPT !.pc = "lock", !.op = op]]
  /\ UNCHANGED <<cxls, mtx, tmq, acq, last>>

\* emapi_handler up to the guarded region of the selected handler
Dispatch_em(op, hdr, type, early) ==
  /\ Alive /\ th["em"].pc = "idle"
  /\ th' = [th EXCEPT !["em"] =
       IF hdr = "zero" \/ type # EMMT_REQ
       THEN [Idle EXCEPT !.pc = "dpush", !.rv = 1]
       ELSE IF op = EMOP_EVENT THEN [Idle EXCEPT !.pc = "ret"]
       ELSE IF early THEN [Idle EXCEPT !.pc = "push_acq", !.rv = 1]
       ELSE IF op \in EmLockedOps THEN [Idle EXCEPT !.pc = "lock", !.op = op]
       ELSE [Idle EXCEPT !.pc = "push_tmq"]]
  /\ UNCHANGED <<cxls, mtx, tmq, acq, last>>

\* pthread_mutex_lock(&cxl_state->mtx)
Acquire(t) ==
  /\ Alive /\ th[t].pc = "lock"
  /\ mtx = "free"
  /\ mtx' = pthread_mutex_lock(mtx, t)
  /\ th' = [th EXCEPT ![t].pc = "crit", ![t].nlock = @ + 1]
  /\ UNCHANGED <<cxls, tmq, acq, last>>

\* What the thread does once the guarded region has computed res
AfterRegion(t, res) ==
  [th EXCEPT ![t] =
     IF res.fault THEN [@ EXCEPT !.pc = "crashed"]
     ELSE IF ~res.unlock
     THEN [@ EXCEPT !.pc = "hret", !.op = "NONE", !.ppid = 0, !.rv = 1]
     ELSE [@ EXCEPT !.pc = "unlock", !.ppid = 0, !.send = (res.len >= 0)]]

\* The guarded region of a handler: validate, mutate, project
Body(t, r, e) ==
  /\ Alive /\ th[t].pc = "crit" /\ th[t].op # "MPC_TMC"
  /\ LET res == Handler(t, th[t].op, cxls, r, e)
     IN  /\ cxls' = res.st
         /\ th' = AfterRegion(t, res)
  /\ UNCHANGED <<mtx, tmq, acq, last>>

\* fmop_mpc_tmc from the lock to the call of the inner handler
TmcOuter(t, r) ==
  /\ Alive /\ th[t].pc = "crit" /\ th[t].op = "MPC_TMC"
  /\ th' = IF TmcRejected(cxls, r)
           THEN AfterRegion(t, Send(cxls, FMRC_INVALID_INPUT, 0, <<>>))
           ELSE [th EXCEPT ![t].pc = "inner", ![t].ppid = r.ppid]
  /\ UNCHANGED <<cxls, mtx, tmq, acq, last>>

\* The inner MCC handler, called with the port; then label `sub:` and the
\* encode of the outer response.  No inner handler touches the mutex.
TmcCall(t, msg, e) ==
  /\ Alive /\ th[t].pc = "inner"
  /\ LET res == TmcInner(cxls, [type |-> MCMT_CXLCCI, ppid |-> th[t].ppid,
                                msg |-> msg], e)
     IN  /\ cxls' = res.st
         /\ th' = AfterRegion(t, res)
  /\ UNCHANGED <<mtx, tmq, acq, last>>

\* pthread_mutex_unlock at the `send:` label, then the test of len
Release(t) ==
  /\ Alive /\ th[t].pc = "unlock"
  /\ mtx' = pthread_mutex_unlock(mtx, t)
  /\ th' = [th EXCEPT ![t] =
       LET done == [@ EXCEPT !.op = "NONE", !.send = FALSE, !.nunlock = @ + 1]
       IN  IF th[t].send THEN [done EXCEPT !.pc = "push_tmq"]
           ELSE IF t = "fm" THEN [done EXCEPT !.pc = "hret", !.rv = 1]
           ELSE [done EXCEPT !.pc = "push_acq", !.rv = 1]]
  /\ UNCHANGED <<cxls, tmq, acq, last>>

\* pq_push(m->tmq, ma) by the handler; rv = 0
PushTmq(t) ==
  /\ Alive /\ th[t].pc = "push_tmq" /\ Room
  /\ tmq' = pq_push(tmq, Frame(t, 0))
  /\ th' = [th EXCEPT ![t].pc = "hret", ![t].rv = 0, ![t].enq = @ + 1]
  /\ UNCHANGED <<cxls, mtx, acq, last>>

\* The `fail:` label of an emulator handler
PushAcq(t) ==
  /\ Alive /\ th[t].pc = "push_acq" /\ Room
  /\ acq' = pq_push(acq, Frame(t, 1))
  /\ th' = [th EXCEPT ![t].pc = "hret", ![t].enq = @ + 1]
  /\ UNCHANGED <<cxls, mtx, tmq, last>>

\* The handler returns rv to its dispatcher; emapi_handler overwrites it
HandlerReturn(t) ==
  /\ Alive /\ th[t].pc = "hret"
  /\ th' = [th EXCEPT ![t] =
       IF t = "fm" /\ th[t].rv # 0 THEN [@ EXCEPT !.pc = "dpush"]
       ELSE [@ EXCEPT !.pc = "ret", !.rv = 0]]
  /\ UNCHANGED <<cxls, mtx, tmq, acq, last>>

\* The dispatcher's own completion_code = 1; pq_push(m->acq, ma)
DispatcherPush(t) ==
  /\ Alive /\ th[t].pc = "dpush" /\ Room
  /\ acq' = pq_push(acq, Frame(t, 1))
  /\ th' = [th EXCEPT ![t].pc = "ret", ![t].enq = @ + 1]
  /\ UNCHANGED <<cxls, mtx, tmq, last>>

\* fmapi_handler / emapi_handler returns to the transport
Return(t) ==
  /\ Alive /\ th[t].pc = "ret"
  /\ th' = [th EXCEPT ![t] = Idle]
  /\ UNCHANGED <<cxls, mtx, tmq, acq, last>>

\* The transport sends the head of the outbound queue
Transmit ==
  /\ tmq # <<>>
  /\ tmq' = Tail(tmq)
  /\ UNCHANGED <<cxls, mtx, th, acq, last>>

\* The transport retires the head of the completion-code queue
Complete ==
  /\ acq # <<>>
  /\ acq' = Tail(acq)
  /\ UNCHANGED <<cxls, mtx, th, tmq, last>>

Next ==
  \/ \E op \in FmOps \cup {FmUnknownOp}, hdr \in {"ok", "neg", "zero"},
        cat \in {FMMT_REQ, FMMT_RESP}, early \in BOOLEAN :
       Dispatch_fm(op, hdr, cat, early)
  \/ \E op \in EmOps, hdr \in {"ok", "zero"},
        type \in {EMMT_REQ, EMMT_RSP}, early \in BOOLEAN :
       Dispatch_em(op, hdr, type, early)
  \/ \E t \in Threads : Acquire(t)
  \/ \E r \in ThreadArgs("fm", "MPC_TMC") : TmcOuter("fm", r)
  \/ \E m \in {x \in TmcMsgs : x.start = 1}, e \in ThreadEnvs("MPC_TMC") :
       TmcCall("fm", m, e)
  \/ \E t \in {u \in Threads : th[u].pc = "crit"} :
       \E r \in ThreadArgs(t, th[t].op), e \in ThreadEnvs(th[t].op) :
         Body(t, r, e)
  \/ \E t \in Threads : Release(t)
  \/ \E t \in Threads : PushTmq(t)
  \/ \E t \in Threads : PushAcq(t)
  \/ \E t \in Threads : HandlerReturn(t)
  \/ \E t \in Threads : DispatcherPush(t)
  \/ \E t \in Threads : Return(t)
  \/ Transmit
  \/ Complete

Spec == Init /\ [][Next]_vars

\* ------------------------------------------------------- serial pipeline
\* One request handled from the dispatcher's entry to its return, by a
\* dispatcher that is fed one frame at a time.  `fault` is what goes wrong
\* before the guarded region: nothing, the header decode ("hdr_neg",
\* "hdr_zero"), a frame that is not a request, or the handler's prologue.

\* The request as the serial dispatcher remembers it: its opcode, the vPPB
\* it named if it was a bind or an unbind, the return code and payload length
\* of the response, the queue the frame went to, whether the guarded region
\* ran, and whether it is an unbind of the vPPB that the request before it
\* bound
NamedVppb(op, r) ==
  IF op \in {"VSC_BIND", "VSC_UNBIND"} /\ r # <<>>
  THEN <<r.vcsid, r.vppbid>> ELSE <<>>
Handled(api, op, r, res, queue, locked) ==
  [api |-> api, op |-> op, vppb |-> NamedVppb(op, r),
   rc |-> res.rc, len |-> res.len, queue |-> queue, locked |-> locked,
   undoes |-> /\ op = "VSC_UNBIND" /\ locked
              /\ last.op = "VSC_BIND"
              /\ last.rc = FMRC_BACKGROUND_OP_STARTED
              /\ last.vppb = NamedVppb(op, r)]
NoAnswer == [rc |-> "NONE", len |-> 0]

\* Where the frame of a request ends that went through the guarded region
QueueOf(res) == IF res.unlock /\ res.len >= 0 THEN "tmq" ELSE "acq"

\* The queues after the frame of thread t went to queue q
Enqueue(t, q) ==
  /\ tmq' = IF q = "tmq" THEN pq_push(tmq, Frame(t, 0)) ELSE tmq
  /\ acq' = IF q = "acq" THEN pq_push(acq, Frame(t, 1)) ELSE acq

\* A frame that never reaches a guarded region
Bypass(t, op, q) ==
  /\ Enqueue(t, q)
  /\ last' = Handled(t, op, <<>>, NoAnswer, q, FALSE)
  /\ UNCHANGED <<cxls, mtx, th>>

\* What the serial dispatcher remembers of a request whose handler ran its
\* guarded region
Answer(t, op, r, res) ==
  IF res.fault THEN Handled(t, op, r, NoAnswer, "none", TRUE)
  ELSE Handled(t, op, r, IF QueueOf(res) = "tmq" THEN res ELSE NoAnswer,
               QueueOf(res), TRUE)

\* A frame whose handler runs its guarded region, leaving the result res:
\* the lock must be free
Region(t, res) ==
  /\ mtx = "free"
  /\ cxls' = res.st
  /\ IF res.fault
     THEN /\ th' = [th EXCEPT ![t].pc = "crashed"]
          /\ mtx' = pthread_mutex_lock(mtx, t)
          /\ UNCHANGED <<tmq, acq>>
     ELSE /\ th' = th
          /\ mtx' = IF res.unlock THEN pthread_mutex_unlock(mtx, t)
                    ELSE pthread_mutex_lock(mtx, t)
          /\ Enqueue(t, QueueOf(res))

Guarded(t, op, r, res) ==
  /\ Region(t, res)
  /\ last' = Answer(t, op, r, res)

\* fmapi_handler, whole
Request_fm(op, fault, r, e) ==
  /\ Alive /\ Room
  /\ \A t \in Threads : th[t].pc = "idle"
  /\ IF fault = "hdr_zero" THEN Bypass("fm", op, "none")
     ELSE IF fault # "none" \/ op \notin FmOps THEN Bypass("fm", op, "acq")
     ELSE Guarded("fm", op, r, FmHandler(op, cxls, r, e))

\* emapi_handler, whole
Request_em(op, fault, r, e) ==
  /\ Alive /\ Room
  /\ \A t \in Threads : th[t].pc = "idle"
  /\ IF fault \in {"hdr_zero", "not_req"} THEN Bypass("em", op, "acq")
     ELSE IF op = EMOP_EVENT THEN Bypass("em", op, "none")
     ELSE IF fault # "none" THEN Bypass("em", op, "acq")
     ELSE IF op \in EmLockedOps
     THEN Guarded("em", op, r, EmHandler(op, cxls, r, e))
     ELSE /\ Enqueue("em", "tmq")
          /\ last' = Handled("em", op, <<>>,
                             [rc |-> EMRC_UNSUPPORTED, len |-> 0], "tmq",
                             FALSE)
          /\ UNCHANGED <<cxls, mtx, th>>

\* How a frame can fail before any guarded region: in the dispatcher, which
\* has not looked at the opcode yet, or in the prologue of the handler
FmFaults == {"hdr_neg", "hdr_zero", "not_req"}
EmFaults == {"hdr_zero", "not_req"}

SeqInit == InitWith(Configs)

SeqNext ==
  \/ \E op \in FmOps : \E r \in FmArgs(op), e \in Envs(op) :
       Request_fm(op, "none", r, e)
  \/ \E op \in FmOps \cup {FmUnknownOp},
        fault \in FmFaults \cup {"none", "early"} :
       /\ \/ fault = "none" /\ op = FmUnknownOp
          \/ fault = "early" /\ op \in FmOps
          \/ fault \in FmFaults /\ op = FmUnknownOp
       /\ Request_fm(op, fault, <<>>, NoEnv)
  \/ \E op \in EmLockedOps : \E r \in EmArgs(op), e \in Envs(op) :
       Request_em(op, "none", r, e)
  \/ \E op \in EmOps, fault \in EmFaults \cup {"none", "early"} :
       /\ \/ fault = "none" /\ op \notin EmLockedOps
          \/ fault = "early" /\ op # EMOP_EVENT
          \/ fault \in EmFaults /\ op = EmOther
       /\ Request_em(op, fault, <<>>, NoEnv)
  \/ Transmit
  \/ Complete

SeqSpec == SeqInit /\ [][SeqNext]_vars

\* ------------------------------------------------------- traced requests
\* The serial dispatcher with the request and the response kept as the
\* handler built them: req is the request payload, hrc the return code the
\* handler put in the response header, obj the response object (both before
\* the encode)
Trace(r, res) == [req |-> r, hrc |-> res.rc, obj |-> res.obj]

\* fmapi_handler on a request frame of a known opcode
Call_fm(op, r, e) ==
  /\ Alive /\ Room
  /\ \A t \in Threads : th[t].pc = "idle"
  /\ LET res == FmHandler(op, cxls, r, e)
     IN  /\ Region("fm", res)
         /\ last' = Answer("fm", op, r, res) @@ Trace(r, res)

\* emapi_handler on a request frame of an opcode that has a handler
Call_em(op, r, e) ==
  /\ Alive /\ Room
  /\ \A t \in Threads : th[t].pc = "idle"
  /\ LET res == EmHandler(op, cxls, r, e)
     IN  /\ Region("em", res)
         /\ last' = Answer("em", op, r, res) @@ Trace(r, res)

\* The process after start-up, the switch model being one of `states`
TracedInit(states) ==
  /\ cxls \in states
  /\ mtx = "free"
  /\ th = [t \in Threads |-> Idle]
  /\ tmq = <<>>
  /\ acq = <<>>
  /\ last = NoRequest @@ [req |-> <<>>, hrc |-> "NONE", obj |-> <<>>]

\* ---- binds, unbinds and the status queries, one request at a time
VscInit == TracedInit({Loaded(c) : c \in {StaleConfig, SpareConfig}})

VscNext ==
  \/ \E r \in [vcsid : {0, NumVcss}, vppbid : 0..(MaxVppbs - 1),
               ppid : PpidArgs, ldid : {0, MaxLd, LDID_NONE}],
        e \in SerEnvs :
       /\ \/ r.vcsid = 0 /\ r.vppbid < 2 /\ r.ppid < NumPorts
             /\ (r.ldid = MaxLd => r.ppid = 1)
          \/ r.vcsid = 0 /\ r.vppbid < 2 /\ r.ldid = 0
          \/ r.vcsid = 0 /\ r.ppid = 1 /\ r.ldid = 0
          \/ r.vppbid = 1 /\ r.ppid = 1 /\ r.ldid = 0
       /\ Call_fm("VSC_BIND", r, e)
  \/ \E r \in [vcsid : {0, NumVcss}, vppbid : 0..(MaxVppbs - 1)],
        e \in SerEnvs :
       /\ r.vcsid = 0 \/ r.vppbid = 1
       /\ Call_fm("VSC_UNBIND", r, e)
  \/ Call_fm("ISC_BOS", [none |-> 0], NoEnv)
  \/ Call_fm("PSC_ID", [none |-> 0], NoEnv)
  \/ \E dev \in {1, 3} :
       Call_em(EMOP_CONN_DEV, [ppid |-> 1, dev |-> dev], NoEnv)
  \/ Call_em(EMOP_DISCON_DEV, [ppid |-> 1, all |-> 0], NoEnv)
  \/ Transmit
  \/ Complete

VscSpec == VscInit /\ [][VscNext]_vars

\* ---- the message limit, the tunnelled MLD commands and well-formed request
\* frames of an opcode the dispatcher has no case for, one request at a
\* time.  The frames whose category is not "request" carry the opcodes
\* ISC_BOS and LIST_DEV, which no other frame carries here.  The switch starts as state_init leaves it (no config file was
\* named), or with the sample config loaded
MldInit ==
  TracedInit({state_init(NumPorts, NumVcss, NumVcss * MaxVppbs),
              Loaded(SampleConfig)})

MldNext ==
  \/ \E l \in {7, 8, 20, 21}, e \in SerEnvs :
       Call_fm("ISC_MSG_LIMIT_SET", [limit |-> l], e)
  \/ Call_fm("ISC_MSG_LIMIT_GET", [none |-> 0], NoEnv)
  \/ \E ppid \in {0, 1}, v \in {<<50, 15>>, <<200, 255>>} :
       Call_fm("MPC_TMC",
               [type |-> MCMT_CXLCCI, ppid |-> ppid,
                msg |-> [category |-> FMMT_REQ, opcode |-> "MCC_QOS_CTRL_SET",
                         epc_en |-> 1, ttr_en |-> 0, egress_mod_pcnt |-> v[1],
                         egress_sev_pcnt |-> 25, sample_interval |-> v[2],
                         rcb |-> 0, comp_interval |-> 64]], NoEnv)
  \/ \E start \in {1, 2} :
       Call_fm("MPC_TMC",
               [type |-> MCMT_CXLCCI, ppid |-> 1,
                msg |-> [category |-> FMMT_REQ, opcode |-> "MCC_ALLOC_SET",
                         start |-> start,
                         list |-> <<[rng1 |-> 4, rng2 |-> 5]>>]], NoEnv)
  \/ \E op \in {"MCC_QOS_ALLOC_SET", "MCC_QOS_LIMIT_SET"}, start \in {0, 1},
        list \in {<<32>>, <<32, 33, 34>>} :
       Call_fm("MPC_TMC",
               [type |-> MCMT_CXLCCI, ppid |-> 1,
                msg |-> [category |-> FMMT_REQ, opcode |-> op,
                         start |-> start, list |-> list]], NoEnv)
  \/ \E op \in {"MCC_ALLOC_GET", "MCC_QOS_ALLOC_GET", "MCC_QOS_LIMIT_GET",
                 "MCC_QOS_CTRL_GET"},
        start \in {0, 1, 2}, num \in {1, 3} :
       /\ op = "MCC_QOS_CTRL_GET" => start = 0 /\ num = 1
       /\ Call_fm("MPC_TMC",
                  [type |-> MCMT_CXLCCI, ppid |-> 1,
                   msg |-> [category |-> FMMT_REQ, opcode |-> op,
                            start |-> start, num |-> num, limit |-> num]],
                  NoEnv)
  \/ \E category \in {FMMT_REQ, FMMT_RESP}, e \in JunkEnvs :
       Call_fm("MPC_TMC",
               [type |-> MCMT_CXLCCI, ppid |-> 1,
                msg |-> [category |-> category,
                         opcode |-> IF category = FMMT_REQ THEN "MCC_OTHER"
                                    ELSE "MCC_ALLOC_GET",
                         start |-> 0, limit |-> 1]], e)
  \/ Request_fm(FmUnknownOp, "none", <<>>, NoEnv)
  \/ Request_em(EmOther, "none", <<>>, NoEnv)
  \/ Request_fm("ISC_BOS", "not_req", <<>>, NoEnv)
  \/ Request_em(EMOP_LIST_DEV, "not_req", <<>>, NoEnv)
  \/ Transmit
  \/ Complete

MldSpec == MldInit /\ [][MldNext]_vars

\* ------------------------------------------------------------ properties
Vppbs == {<<v, k>> : v \in 0..(NumVcss - 1), k \in 0..(MaxVppbs - 1)}
VppbOf(S, x) == S.vcss[x[1]].vppbs[x[2]]
InRegion(t) == th[t].pc \in {"crit", "inner", "unlock"}
Accepted == {FMRC_SUCCESS, FMRC_BACKGROUND_OP_STARTED}

\* C1: whenever a handler returns to its dispatcher, on whatever path, the
\* model mutex is not held by the thread that ran it.
C1_ReturnsUnlocked ==
  \A t \in Threads : th[t].pc = "hret" => mtx # t

\* C2: a request that waits for the model lock is never stuck for good: the
\* lock is free, or the thread that holds it is still inside its guarded
\* region and will release it.
C2_LockWaitEnds ==
  \A t \in Threads :
    th[t].pc = "lock" => (mtx = "free" \/ (mtx # t /\ InRegion(mtx)))

\* C3: when the dispatcher is done with a frame, the frame has been enqueued
\* exactly once (on the outbound queue or on the completion-code queue).
C3_EnqueuedOnce ==
  \A t \in Threads : th[t].pc = "ret" => th[t].enq = 1

\* C4: a request answered with a return code other than SUCCESS or
\* BACKGROUND_OP_STARTED leaves the whole switch model as it was.
C4_RejectedLeavesModel ==
  [][ (Len(tmq') > Len(tmq) /\ last'.rc \notin Accepted) => cxls' = cxls ]_vars

\* C5: no request breaks the BOUND_LD invariant: every vPPB bound to an LD
\* names a port the switch has, and its ldid is the sentinel or below that
\* port's LD count.
BoundLdValid(S) ==
  \A x \in Vppbs :
    VppbOf(S, x).bind_status = FMBS_BOUND_LD =>
      /\ VppbOf(S, x).ppid < S.num_ports
      /\ \/ VppbOf(S, x).ldid = LDID_NONE
         \/ VppbOf(S, x).ldid < S.ports[VppbOf(S, x).ppid].ld
C5_BoundLdKept ==
  [][ BoundLdValid(cxls) => BoundLdValid(cxls') ]_vars

C7_AccessUnderLock ==
  [][ /\ \A t \in Threads : th'[t].pc \in {"crit", "inner"} => mtx' = t
      /\ cxls' # cxls =>
           \E t \in Threads : /\ mtx = t /\ th[t].pc \in {"crit", "inner"}
                              /\ th'[t] # th[t]
                              /\ \A u \in Threads \ {t} : th'[u] = th[u]
    ]_vars
C7_Witness ==
  /\ th["em"].pc = "crit" /\ th["fm"].pc = "lock"
  /\ cxls.ports[1].prsnt = 0

\* C8: a tunnelled command takes the mutex once and gives it back once, both
\* in the outer handler; the inner handler runs with the mutex held, between
\* the two, and does not touch it.
C8_TmcLocksOnce ==
  [][ \A t \in Threads :
        /\ th'[t].pc = "inner" =>
             th'[t].nlock = 1 /\ th'[t].nunlock = 0 /\ mtx' = t
        /\ th[t].pc = "inner" =>
             \/ th'[t] = th[t]
             \/ /\ mtx' = mtx
                /\ th'[t].nlock = 1 /\ th'[t].nunlock = 0
                /\ th'[t].pc \in {"unlock", "crashed"}
        /\ (th[t].op = "MPC_TMC" /\ th[t].pc = "unlock" /\ th'[t] # th[t]) =>
             /\ mtx = t /\ mtx' = "free"
             /\ th'[t].nlock = 1 /\ th'[t].nunlock = 1
    ]_vars
C8_Witness ==
  /\ th["fm"].op = "MPC_TMC" /\ th["fm"].pc = "unlock"
  /\ cxls.ports[1].mld # NULL
  /\ Deref(cxls.ports[1].mld).rng1[1] = 1
  /\ Deref(cxls.ports[1].mld).rng2[1] = 3

\* C9: a thread never enqueues a frame, on either queue, while it holds the
\* mutex.
C9_EnqueueUnlocked ==
  [][ \A t \in Threads : th'[t].enq > th[t].enq => mtx # t ]_vars

\* C10: an unbind of the vPPB that the request before it bound leaves that
\* vPPB {UNBOUND, ppid 0, ldid 0}, and its response, if one is produced,
\* says BACKGROUND_OP_STARTED.
C10_BindThenUnbind ==
  [][ (last'.undoes /\ last' # last) =>
        /\ VppbOf(cxls', last'.vppb) = ZeroVppb
        /\ last'.queue = "tmq" => last'.rc = FMRC_BACKGROUND_OP_STARTED ]_vars
C10_Witness ==
  /\ last.undoes /\ last.rc = FMRC_BACKGROUND_OP_STARTED
  /\ VppbOf(cxls, last.vppb) = ZeroVppb

\* The serial dispatcher on the shipped configuration, with the port and
\* VCS queries, the port control, the config and memory accesses of a port,
\* and a connect of the MLD profile to port 2 whose file steps may fail
PortNext ==
  \/ \E ports \in {<<0, 1>>, <<NumPorts, 1>>, <<2, NumPorts>>, <<>>},
        e \in JunkEnvs :
       /\ e = NoEnv \/ ports = <<NumPorts, 1>>
       /\ Call_fm("PSC_PORT", [ports |-> ports], e)
  \/ \E vcss \in {<<0>>, <<NumVcss, 0>>,
                   [i \in 1..(FM_MAX_VCS_PER_RSP + 1) |-> 0]},
        w \in {<<0, MaxVppbs>>, <<1, 1>>, <<2, 1>>, <<MaxVppbs, 1>>},
        e \in JunkEnvs :
       /\ e = NoEnv \/ vcss = <<NumVcss, 0>>
       /\ Call_fm("VSC_INFO", [vcss |-> vcss, vppbid_start |-> w[1],
                               vppbid_limit |-> w[2]], e)
  \/ \E ppid \in {1, NumPorts},
        opcode \in {FMPO_ASSERT_PERST, FMPO_DEASSERT_PERST, FMPO_RESET_PPB},
        e \in SerEnvs :
       Call_fm("PSC_PORT_CTRL", [ppid |-> ppid, opcode |-> opcode], e)
  \/ \E ppid \in {0, NumPorts}, type \in {FMCT_READ, FMCT_WRITE, 2} :
       Call_fm("PSC_CFG", [ppid |-> ppid, type |-> type, ext |-> 0,
                           reg |-> 0, fdbe |-> 3,
                           data |-> [i \in 0..3 |-> 9 - i]], NoEnv)
  \/ \E ppid \in {0, 1, 2, NumPorts}, ldid \in {0, 1, 2},
        type \in {FMCT_READ, FMCT_WRITE, 2},
        w \in {<<0, 1>>, <<0, 2>>, <<MemWord - 1, 1>>,
               <<2 * MemGranule - 1, 1>>, <<0, MemMaxLen + 1>>},
        e \in JunkEnvs :
       /\ e = NoEnv \/ ppid = 2 \/ w[1] = MemWord - 1
       /\ ppid # 1 => ldid = 0 /\ type = FMCT_READ /\ w = <<0, 1>>
       /\ ldid = 2 => type = FMCT_READ /\ w = <<0, 1>>
       /\ type = 2 => ldid = 0 /\ w = <<0, 1>>
       /\ type = FMCT_WRITE =>
            \/ ldid = 0 /\ w \in {<<0, 1>>, <<0, 2>>}
            \/ ldid = 1 /\ w = <<MemWord - 1, 1>>
       /\ Call_fm("MPC_MEM",
                  [type |-> type, ppid |-> ppid, ldid |-> ldid,
                   offset |-> w[1], len |-> w[2],
                   data |-> IF type = FMCT_WRITE
                            THEN [i \in 1..w[2] |-> 6 + i] ELSE <<>>], e)
  \/ \E e \in IoEnvs :
       Call_em(EMOP_CONN_DEV, [ppid |-> 2, dev |-> 1], e)
  \/ Transmit
  \/ Complete

PortSpec == TracedInit({Loaded(SpareConfig)}) /\ [][PortNext]_vars

\* The serial dispatcher on the shipped configuration with the emulator's
\* connects and disconnects (the file steps of a connect of the MLD profile
\* may fail) and the port query
DevNext ==
  \/ \E ppid \in {1, 2, NumPorts}, dev \in 0..num_devices, e \in IoEnvs :
       /\ e.io # "ok" => ppid = 2 /\ dev = 1
       /\ Call_em(EMOP_CONN_DEV, [ppid |-> ppid, dev |-> dev], e)
  \/ \E ppid \in {1, 2, NumPorts}, all \in {0, 1} :
       /\ all = 1 => ppid = 2
       /\ Call_em(EMOP_DISCON_DEV, [ppid |-> ppid, all |-> all], NoEnv)
  \/ \E ports \in {<<1>>, <<2>>}, e \in SerEnvs :
       Call_fm("PSC_PORT", [ports |-> ports], e)
  \/ Transmit
  \/ Complete

DevSpec == TracedInit({Loaded(SampleConfig)}) /\ [][DevNext]_vars

\* ------------------------------------------------------------ construction
\* main() builds the switch model once, from its three counts; here the
\* counts are drawn around the maxima and the widths of the stored fields
NewNext ==
  \E ports \in {0, 1, 2, NumPorts, MAX_PORTS - 1, MAX_PORTS, MAX_PORTS + 1},
     vcss \in {0, 1, 2, MAX_VCSS - 1, MAX_VCSS, MAX_VCSS + 1},
     vppbs \in {0, MAX_PORTS, MAX_PORTS + 1, MAX_VPPBS, MAX_VPPBS + 1} :
    /\ cxls' = state_init(ports, vcss, vppbs)
    /\ last' = [last EXCEPT !.op = "NEW",
                            !.req = [ports |-> ports, vcss |-> vcss,
                                     vppbs |-> vppbs]]
    /\ UNCHANGED <<mtx, th, tmq, acq>>

NewSpec ==
  TracedInit({state_init(NumPorts, NumVcss, NumVcss * MaxVppbs)})
    /\ [][NewNext]_vars

\* ---- the queries of every command set, the tunnelled MLD commands toward
\* the MLD port and toward a Type-3 port without an MLD, and the memory
\* pass-through after the LD ranges were set, one request at a time
MccOps ==
  {"MCC_INFO", "MCC_QOS_STAT", "MCC_ALLOC_GET", "MCC_QOS_ALLOC_GET",
   "MCC_QOS_CTRL_GET", "MCC_QOS_LIMIT_GET", "MCC_ALLOC_SET",
   "MCC_QOS_ALLOC_SET", "MCC_QOS_CTRL_SET", "MCC_QOS_LIMIT_SET"}

QryNext ==
  \/ \E op \in {"ISC_BOS", "ISC_ID", "ISC_MSG_LIMIT_GET", "PSC_ID"} :
       Call_fm(op, [none |-> 0], NoEnv)
  \/ \E ports \in {<<0, 1>>, <<NumPorts>>} :
       Call_fm("PSC_PORT", [ports |-> ports], NoEnv)
  \/ \E vcss \in {<<0>>, <<NumVcss>>} :
       Call_fm("VSC_INFO", [vcss |-> vcss, vppbid_start |-> 0,
                            vppbid_limit |-> MaxVppbs], NoEnv)
  \/ \E vcsid \in {0, NumVcss}, vppbid \in {0, MaxVppbs}, e \in SerEnvs :
       Call_fm("VSC_AER", [vcsid |-> vcsid, vppbid |-> vppbid], e)
  \/ \E op \in {"PSC_CFG", "MPC_CFG"}, ppid \in {0, 1, NumPorts} :
       Call_fm(op, [ppid |-> ppid, ldid |-> 0, type |-> FMCT_READ, ext |-> 0,
                    reg |-> 0, fdbe |-> 3, data |-> [i \in 0..3 |-> 0]],
               NoEnv)
  \/ \E ppid \in {1, 2}, type \in {FMCT_READ, FMCT_WRITE},
        offset \in {0, 4 * MemGranule + 1}, e \in JunkEnvs :
       /\ e = NoEnv \/ offset # 0
       /\ ppid = 2 => type = FMCT_READ /\ offset = 0
       /\ Call_fm("MPC_MEM",
                  [type |-> type, ppid |-> ppid, ldid |-> 0,
                   offset |-> offset, len |-> 1,
                   data |-> IF type = FMCT_WRITE THEN <<7>> ELSE <<>>], e)
  \/ \E ppid \in {1, 2}, opcode \in MccOps, n \in {0, 1}, k \in {0, 1} :
       /\ opcode \notin {"MCC_ALLOC_SET", "MCC_QOS_ALLOC_SET",
                         "MCC_QOS_LIMIT_SET"} => n = 1
       /\ opcode # "MCC_ALLOC_SET" => k = 0
       /\ ppid = 2 => k = 0
       /\ Call_fm("MPC_TMC",
                  [type |-> MCMT_CXLCCI, ppid |-> ppid,
                   msg |-> [category |-> FMMT_REQ, opcode |-> opcode,
                            start |-> 0, num |-> 1, limit |-> 1,
                            list |-> IF n = 0 THEN <<>>
                                     ELSE IF opcode # "MCC_ALLOC_SET"
                                     THEN <<32>>
                                     ELSE IF k = 0
                                     THEN <<[rng1 |-> 2, rng2 |-> 0]>>
                                     ELSE <<[rng1 |-> 0, rng2 |-> 5]>>,
                            epc_en |-> 1, ttr_en |-> 0,
                            egress_mod_pcnt |-> 50, egress_sev_pcnt |-> 25,
                            sample_interval |-> 8, rcb |-> 0,
                            comp_interval |-> 64]], NoEnv)
  \/ \E start \in {1, num_devices} :
       Call_em(EMOP_LIST_DEV, [num |-> 0, start |-> start], NoEnv)
  \/ Call_em(EMOP_CONN_DEV, [ppid |-> 2, dev |-> 3], NoEnv)
  \/ Call_em(EMOP_DISCON_DEV, [ppid |-> 2, all |-> 0], NoEnv)
  \/ Transmit
  \/ Complete

QrySpec == TracedInit({Loaded(SampleConfig)}) /\ [][QryNext]_vars

\* C11: a VSC_BIND that is answered says BACKGROUND_OP_STARTED exactly when
\* the VCS id and the vPPB id are in range, the port id is in range, the
\* port is not DISABLED, an LD bind goes to a Type-3 or Type-3 Pooled port
\* that has LDs, a port that has LDs is not bound whole, and the vPPB is
\* UNBOUND; it says INVALID_INPUT in every other case.
C11_BindValidation ==
  [][ (Len(tmq') > Len(tmq) /\ last'.op = "VSC_BIND") =>
        LET r == last'.req
            admissible ==
              /\ r.vcsid < cxls.num_vcss
              /\ r.vppbid < cxls.vcss[r.vcsid].num
              /\ r.ppid < cxls.num_ports
              /\ cxls.ports[r.ppid].state # FMPS_DISABLED
              /\ r.ldid # LDID_NONE =>
                   /\ cxls.ports[r.ppid].dt \in
                        {FMDT_CXL_TYPE_3, FMDT_CXL_TYPE_3_POOLED}
                   /\ cxls.ports[r.ppid].ld > 0
              /\ cxls.ports[r.ppid].ld > 0 => r.ldid # LDID_NONE
              /\ cxls.vcss[r.vcsid].vppbs[r.vppbid].bind_status = FMBS_UNBOUND
        IN  IF admissible THEN last'.rc = FMRC_BACKGROUND_OP_STARTED
            ELSE last'.rc = FMRC_INVALID_INPUT ]_vars
C11_Witness ==
  /\ last.op = "VSC_BIND" /\ last.rc = FMRC_BACKGROUND_OP_STARTED
  /\ last.req.ldid # LDID_NONE
  /\ cxls.ports[last.req.ppid].dt = FMDT_CXL_TYPE_3_POOLED

\* C12: a VSC_BIND answered BACKGROUND_OP_STARTED leaves the vPPB it names
\* BOUND_LD with the requested port and LD when an LD was named, BOUND_PORT
\* with the requested port and ldid 0 otherwise; the port it names is in
\* state DSP; every other vPPB and every other port is as before.
C12_BindEffect ==
  [][ ( /\ Len(tmq') > Len(tmq) /\ last'.op = "VSC_BIND"
        /\ last'.rc = FMRC_BACKGROUND_OP_STARTED ) =>
        LET r == last'.req
            x == <<r.vcsid, r.vppbid>>
        IN  /\ VppbOf(cxls', x) =
                 IF r.ldid # LDID_NONE
                 THEN [bind_status |-> FMBS_BOUND_LD, ppid |-> r.ppid,
                       ldid |-> r.ldid]
                 ELSE [bind_status |-> FMBS_BOUND_PORT, ppid |-> r.ppid,
                       ldid |-> 0]
            /\ cxls'.ports[r.ppid].state = FMPS_DSP
            /\ \A y \in Vppbs \ {x} : VppbOf(cxls', y) = VppbOf(cxls, y)
            /\ \A i \in (0..(cxls.num_ports - 1)) \ {r.ppid} :
                 cxls'.ports[i] = cxls.ports[i] ]_vars
C12_Witness ==
  /\ last.op = "VSC_BIND" /\ last.rc = FMRC_BACKGROUND_OP_STARTED
  /\ last.req.ldid = LDID_NONE /\ last.req.ppid = 0
  /\ VppbOf(cxls, last.vppb) =
       [bind_status |-> FMBS_BOUND_PORT, ppid |-> 0, ldid |-> 0]
  /\ cxls.ports[0].state = FMPS_DSP

\* C13: a VSC_UNBIND that is answered says BACKGROUND_OP_STARTED and leaves
\* the vPPB {UNBOUND, ppid 0, ldid 0} exactly when the VCS id and the vPPB id
\* are in range, the vPPB is neither UNBOUND nor INPROGRESS, the port it is
\* bound to exists and that port is BINDING, UNBINDING, USP or DSP; it says
\* INVALID_INPUT in every other case.
C13_UnbindValidation ==
  [][ (Len(tmq') > Len(tmq) /\ last'.op = "VSC_UNBIND") =>
        LET r == last'.req
            x == <<r.vcsid, r.vppbid>>
            admissible ==
              /\ r.vcsid < cxls.num_vcss
              /\ r.vppbid < cxls.vcss[r.vcsid].num
              /\ VppbOf(cxls, x).bind_status \notin
                   {FMBS_UNBOUND, FMBS_INPROGRESS}
              /\ VppbOf(cxls, x).ppid < cxls.num_ports
              /\ cxls.ports[VppbOf(cxls, x).ppid].state \in
                   {FMPS_BINDING, FMPS_UNBINDING, FMPS_USP, FMPS_DSP}
        IN  IF admissible
            THEN /\ last'.rc = FMRC_BACKGROUND_OP_STARTED
                 /\ VppbOf(cxls', x) = ZeroVppb
            ELSE last'.rc = FMRC_INVALID_INPUT ]_vars
C13_Witness ==
  /\ last.op = "VSC_UNBIND" /\ last.rc = FMRC_BACKGROUND_OP_STARTED
  /\ last.req.vppbid = 0
  /\ VppbOf(cxls, <<last.req.vcsid, last.req.vppbid>>) = ZeroVppb

\* C14: a VSC_BIND or VSC_UNBIND answered BACKGROUND_OP_STARTED leaves the
\* background-operation block (running 0, pcnt 100, opcode of that request,
\* rc SUCCESS, ext 0); no step other than a bind or an unbind that passed
\* its validation changes the block; and an ISC_BOS that is answered reports
\* the block as it stands.
C14_BosAfterBind ==
  [][ /\ ( /\ Len(tmq') > Len(tmq)
            /\ last'.op \in {"VSC_BIND", "VSC_UNBIND"}
            /\ last'.rc = FMRC_BACKGROUND_OP_STARTED ) =>
          cxls'.bos = [running |-> 0, pcnt |-> 100, opcode |-> last'.op,
                       rc |-> FMRC_SUCCESS, ext |-> 0]
      /\ cxls'.bos # cxls.bos =>
          /\ last'.op \in {"VSC_BIND", "VSC_UNBIND"}
          /\ last'.hrc = FMRC_BACKGROUND_OP_STARTED
          /\ Len(tmq') + Len(acq') > Len(tmq) + Len(acq)
      /\ (Len(tmq') > Len(tmq) /\ last'.op = "ISC_BOS") =>
          /\ last'.rc = FMRC_SUCCESS
          /\ last'.obj = cxls.bos /\ cxls'.bos = cxls.bos ]_vars
C14_Witness ==
  /\ last.op = "ISC_BOS" /\ last.queue = "tmq"
  /\ last.obj = [running |-> 0, pcnt |-> 100, opcode |-> "VSC_UNBIND",
                 rc |-> FMRC_SUCCESS, ext |-> 0]
  /\ cxls.bos = last.obj

\* C15: in every state, from the construction of the switch model onward
\* and after every request, 8 <= msg_rsp_limit_n <= 20.
C15_LimitInRange ==
  /\ 8 <= cxls.msg_rsp_limit_n
  /\ cxls.msg_rsp_limit_n <= 20

\* C16: an ISC_MSG_LIMIT_SET that is answered says SUCCESS and leaves
\* msg_rsp_limit_n at the requested limit when 8 <= limit <= 20; it says
\* INVALID_INPUT and leaves msg_rsp_limit_n as it was otherwise (7 and 21
\* are rejected, 8 and 20 are taken).
C16_LimitSet ==
  [][ (Len(tmq') > Len(tmq) /\ last'.op = "ISC_MSG_LIMIT_SET") =>
        IF 8 <= last'.req.limit /\ last'.req.limit <= 20
        THEN /\ last'.rc = FMRC_SUCCESS
             /\ cxls'.msg_rsp_limit_n = last'.req.limit
        ELSE /\ last'.rc = FMRC_INVALID_INPUT
             /\ cxls'.msg_rsp_limit_n = cxls.msg_rsp_limit_n ]_vars
C16_Witness ==
  /\ last.op = "ISC_MSG_LIMIT_SET" /\ last.req.limit = 20
  /\ last.rc = FMRC_SUCCESS /\ cxls.msg_rsp_limit_n = 20

\* C17: after every request, a QoS control set tunnelled to an MLD
\* included, every MLD has its three percentages (egress_mod_pcnt,
\* egress_sev_pcnt, bp_avg_pcnt) in 0..100 and its sample_interval in 0..15.
C17_MldInDomain ==
  \A i \in 0..(cxls.num_ports - 1) :
    cxls.ports[i].mld # NULL =>
      /\ Deref(cxls.ports[i].mld).egress_mod_pcnt \in 0..100
      /\ Deref(cxls.ports[i].mld).egress_sev_pcnt \in 0..100
      /\ Deref(cxls.ports[i].mld).bp_avg_pcnt \in 0..100
      /\ Deref(cxls.ports[i].mld).sample_interval \in 0..15

\* C19: a response that says INVALID_INPUT or UNSUPPORTED carries no
\* payload, be it the outer response of a request or the inner response a
\* tunnelled command wraps.
C19_ErrorsCarryNothing ==
  last.queue = "tmq" =>
    /\ last.rc \in {FMRC_INVALID_INPUT, FMRC_UNSUPPORTED} => last.len = 0
    /\ (last.op = "MPC_TMC" /\ last.rc = FMRC_SUCCESS) =>
         (last.obj.rc \in {FMRC_INVALID_INPUT, FMRC_UNSUPPORTED} =>
            last.obj.len = 0)

\* C18: the active_vppbs a PSC_ID response reports, after whatever requests
\* came before it, is at least 0 and at most the sum of vcs.num over the
\* VCSs of the switch.
C18_ActiveVppbsBounded ==
  (last.op = "PSC_ID" /\ last.queue = "tmq") =>
    LET RECURSIVE SumNum(_)
        SumNum(n) == IF n = 0 THEN 0
                     ELSE cxls.vcss[n - 1].num + SumNum(n - 1)
    IN  /\ 0 <= last.obj.active_vppbs
        /\ last.obj.active_vppbs <= SumNum(cxls.num_vcss)
C18_Witness ==
  /\ last.op = "PSC_ID" /\ last.queue = "tmq"
  /\ last.obj.active_vppbs = 2
  /\ cxls.vcss[0].num = 2
  /\ VppbOf(cxls, <<0, 2>>).bind_status # FMBS_UNBOUND

\* C20: in both families a well-formed request frame whose opcode has no
\* handler ends on the outbound queue as a response that says UNSUPPORTED
\* with length 0, and the switch model is as it was.
C20_UnknownOpcodeAnswered ==
  [][ ( /\ Len(tmq') + Len(acq') > Len(tmq) + Len(acq)
        /\ last'.op \in {FmUnknownOp, EmOther} ) =>
        /\ Len(tmq') > Len(tmq)
        /\ last'.rc \in {FMRC_UNSUPPORTED, EMRC_UNSUPPORTED}
        /\ last'.len = 0
        /\ cxls' = cxls ]_vars

C22_InnerErrorHeader ==
  ( /\ last.op = "MPC_TMC" /\ last.queue = "tmq"
    /\ last.rc = FMRC_SUCCESS ) =>
    /\ last.req.msg.category # FMMT_REQ =>
         last.obj.rc = FMRC_INVALID_INPUT /\ last.obj.len = 0
    /\ (last.req.msg.category = FMMT_REQ /\ last.req.msg.opcode = "MCC_OTHER")
         => last.obj.rc = FMRC_UNSUPPORTED /\ last.obj.len = 0

C25_PortList ==
  [][ (Len(tmq') > Len(tmq) /\ last'.op = "PSC_PORT") =>
        LET ids == SelectSeq(last'.req.ports,
                             LAMBDA x : x < cxls.num_ports)
        IN  /\ last'.rc = FMRC_SUCCESS
            /\ last'.obj.num = Len(ids)
            /\ \A k \in 1..Len(ids) :
                 last'.obj.list[k] = PortInfo(cxls.ports[ids[k]]) ]_vars

\* C26: the blocks 0..num-1 of a VSC_INFO response are the projections of
\* exactly the requested ids below num_vcss, in request order and at most
\* FM_MAX_VCS_PER_RSP of them, and each block lists the vPPBs with index in
\* [vppbid_start, min(vppbid_start + vppbid_limit, vcs.num)) and no other.
C26_VcsBlocks ==
  [][ (Len(tmq') > Len(tmq) /\ last'.op = "VSC_INFO") =>
        LET r == last'.req
            ids == SelectSeq(SubSeq(r.vcss, 1,
                               Min(Len(r.vcss), FM_MAX_VCS_PER_RSP)),
                             LAMBDA x : x < cxls.num_vcss)
            Shown(v) ==
              {k \in 0..(MaxVppbs - 1) :
                 /\ k >= r.vppbid_start
                 /\ k < Min(r.vppbid_start + r.vppbid_limit, v.num)}
        IN  /\ last'.rc = FMRC_SUCCESS
            /\ last'.obj.num = Len(ids)
            /\ \A j \in 1..Len(ids) :
                 LET v == cxls.vcss[ids[j]]
                     b == last'.obj.list[j]
                 IN  /\ "vcsid" \in DOMAIN b
                     /\ b.vcsid = v.vcsid /\ b.state = v.state
                     /\ b.uspid = v.uspid /\ b.total = v.num
                     /\ DOMAIN b.list = Shown(v)
                     /\ \A k \in Shown(v) :
                          b.list[k] =
                            [status |-> v.vppbs[k].bind_status,
                             ppid |-> v.vppbs[k].ppid,
                             ldid |-> v.vppbs[k].ldid] ]_vars

\* C27: PSC_PORT_CTRL on a ppid below num_ports sets that port's perst to 1
\* for ASSERT_PERST, to 0 for DEASSERT_PERST and changes nothing for
\* RESET_PPB, no other field of the model changes, and its response carries
\* SUCCESS; on a ppid at or above num_ports the model is unchanged and the
\* response carries INVALID_INPUT.
C27_PortCtrl ==
  [][ ( /\ Len(tmq') + Len(acq') > Len(tmq) + Len(acq)
        /\ last'.op = "PSC_PORT_CTRL"
        /\ last'.req.opcode \in
             {FMPO_ASSERT_PERST, FMPO_DEASSERT_PERST, FMPO_RESET_PPB} ) =>
        LET r == last'.req
        IN  IF r.ppid < cxls.num_ports
            THEN /\ last'.queue = "tmq" => last'.rc = FMRC_SUCCESS
                 /\ last'.hrc = FMRC_SUCCESS
                 /\ cxls' =
                      CASE r.opcode = FMPO_ASSERT_PERST ->
                             [cxls EXCEPT !.ports[r.ppid].perst = 1]
                        [] r.opcode = FMPO_DEASSERT_PERST ->
                             [cxls EXCEPT !.ports[r.ppid].perst = 0]
                        [] r.opcode = FMPO_RESET_PPB -> cxls
            ELSE /\ last'.queue = "tmq" /\ last'.rc = FMRC_INVALID_INPUT
                 /\ cxls' = cxls ]_vars
C27_Witness ==
  /\ last.op = "PSC_PORT_CTRL" /\ last.queue = "tmq"
  /\ last.rc = FMRC_SUCCESS /\ last.req.opcode = FMPO_ASSERT_PERST
  /\ last.req.ppid = 1 /\ cxls.ports[1].perst = 1

\* C28: a PSC_CFG request on a ppid below num_ports whose type is neither
\* READ nor WRITE fails: it gets no response with rc SUCCESS, and the port's
\* configuration buffer is unchanged.
C28_CfgUnknownType ==
  [][ ( /\ Len(tmq') + Len(acq') > Len(tmq) + Len(acq)
        /\ last'.op = "PSC_CFG"
        /\ last'.req.ppid < cxls.num_ports
        /\ last'.req.type \notin {FMCT_READ, FMCT_WRITE} ) =>
        /\ ~(last'.queue = "tmq" /\ last'.rc = FMRC_SUCCESS)
        /\ cxls'.ports[last'.req.ppid].cfgspace =
             cxls.ports[last'.req.ppid].cfgspace ]_vars

\* C29: on a port with a backing map, an MPC_MEM READ(ppid, ldid, offset,
\* len = |data|) that directly follows a successful MPC_MEM WRITE(ppid, ldid,
\* offset, data) is answered SUCCESS with exactly data.
C29_MemRoundTrip ==
  [][ ( /\ Len(tmq') > Len(tmq) /\ last'.op = "MPC_MEM"
        /\ last'.req.type = FMCT_READ
        /\ last.op = "MPC_MEM" /\ last.queue = "tmq"
        /\ last.rc = FMRC_SUCCESS /\ last.req.type = FMCT_WRITE
        /\ last'.req.ppid = last.req.ppid
        /\ last'.req.ldid = last.req.ldid
        /\ last'.req.offset = last.req.offset
        /\ last'.req.len = Len(last.req.data)
        /\ Deref(cxls.ports[last.req.ppid].mld).memspace = "MAPPED" ) =>
        /\ last'.rc = FMRC_SUCCESS
        /\ last'.obj.len = Len(last.req.data)
        /\ last'.obj.data = last.req.data ]_vars
C29_Witness ==
  /\ last.op = "MPC_MEM" /\ last.queue = "tmq" /\ last.rc = FMRC_SUCCESS
  /\ last.req.type = FMCT_READ /\ last.req.ppid = 1 /\ last.req.ldid = 0
  /\ last.req.len = 2 /\ last.obj.data = <<7, 8>>

\* C30: MPC_MEM reads or writes memory only when ppid < num_ports, the port
\* is Type-3, ldid < port.ld, the MLD has a backing map, len is at most the
\* maximum and offset + len < ld_size, where ld_size is
\* g * (rng2[ldid] + 1) - g * rng1[ldid]; a request that misses the backing
\* map only is answered UNSUPPORTED, one that violates any other of them
\* INVALID_INPUT, and the model is as before.
C30_MemGuards ==
  [][ ( /\ \/ Len(tmq') + Len(acq') > Len(tmq) + Len(acq)
           \/ th' # th
        /\ last'.op = "MPC_MEM"
        /\ last'.req.type \in {FMCT_READ, FMCT_WRITE} ) =>
        LET r == last'.req
            known == r.ppid < cxls.num_ports
            p == cxls.ports[r.ppid]
            named == known /\ IsType3(p) /\ r.ldid < p.ld
            m == Deref(p.mld)
            backed == p.mld # NULL /\ m.memspace = "MAPPED"
            g == CASE m.granularity = 0 -> MemGranule
                   [] m.granularity = 1 -> 2 * MemGranule
                   [] m.granularity = 2 -> 4 * MemGranule
            ld_size == g * (m.rng2[r.ldid] + 1) - g * m.rng1[r.ldid]
            fits == r.len <= MemMaxLen /\ r.offset + r.len < ld_size
        IN  ~(named /\ backed /\ fits) =>
              /\ last'.queue = "tmq"
              /\ last'.rc = IF named /\ ~backed THEN FMRC_UNSUPPORTED
                            ELSE FMRC_INVALID_INPUT
              /\ cxls' = cxls ]_vars

\* C31: CONN_DEV(ppid, dev) with ppid below num_ports and dev a catalog
\* entry that has a name is answered SUCCESS and leaves the port with
\* prsnt = 1, the entry's dv, dt and cv, state USP if the entry is a root
\* port and DSP otherwise, and ld equal to the num of the entry's MLD (0 when
\* it has none); a PSC_PORT for that port that follows reports just that.
C31_ConnectEffect ==
  [][ /\ ( /\ Len(tmq') + Len(acq') > Len(tmq) + Len(acq)
           /\ last'.op = EMOP_CONN_DEV
           /\ last'.req.ppid < cxls.num_ports
           /\ last'.req.dev < num_devices
           /\ Device(last'.req.dev).name # "" ) =>
           LET d == Device(last'.req.dev)
               p == cxls'.ports[last'.req.ppid]
           IN  /\ last'.queue = "tmq" /\ last'.rc = EMRC_SUCCESS
               /\ p.prsnt = 1
               /\ p.dv = d.dv /\ p.dt = d.dt /\ p.cv = d.cv
               /\ p.state = IF d.rootport = 1 THEN FMPS_USP ELSE FMPS_DSP
               /\ p.ld = IF d.mld # NULL THEN Deref(d.mld).num ELSE 0
      /\ ( /\ Len(tmq') > Len(tmq) /\ last'.op = "PSC_PORT"
           /\ last.op = EMOP_CONN_DEV /\ last.queue = "tmq"
           /\ last.rc = EMRC_SUCCESS
           /\ last'.req.ports = <<last.req.ppid>> ) =>
           LET d == Device(last.req.dev)
               b == last'.obj.list[1]
           IN  /\ last'.rc = FMRC_SUCCESS /\ last'.obj.num = 1
               /\ b.ppid = last.req.ppid /\ b.prsnt = 1
               /\ b.dv = d.dv /\ b.dt = d.dt /\ b.cv = d.cv
               /\ b.state = IF d.rootport = 1 THEN FMPS_USP ELSE FMPS_DSP
               /\ b.num_ld = IF d.mld # NULL THEN Deref(d.mld).num ELSE 0
    ]_vars
C31_Witness ==
  /\ last.op = "PSC_PORT" /\ last.queue = "tmq"
  /\ last.req.ports = <<2>> /\ last.obj.num = 1
  /\ last.obj.list[1].dt = FMDT_CXL_TYPE_3_POOLED
  /\ last.obj.list[1].num_ld = 2 /\ last.obj.list[1].prsnt = 1

C33_MapIffFile ==
  \A i \in DOMAIN cxls.ports :
    cxls.ports[i].mld # NULL =>
      (Deref(cxls.ports[i].mld).memspace # "NULL"
         <=> Deref(cxls.ports[i].mld).file)
C33_Witness ==
  /\ last.op = EMOP_CONN_DEV /\ last.req = [ppid |-> 2, dev |-> 1]
  /\ cxls.ports[2].mld # NULL
  /\ Deref(cxls.ports[2].mld).memspace = "NULL"
  /\ ~Deref(cxls.ports[2].mld).file

\* C34: a switch built by new(ports, vcss, vppbs) stores
\* num_ports = min(ports, 256), num_vcss = min(vcss, 256) and
\* num_vppbs = min(vppbs, 256); every port starts DISABLED with prsnt = 0 and
\* every VCS starts DISABLED with zero vPPBs.
C34_Construction ==
  last.op = "NEW" =>
    /\ cxls.num_ports = Min(last.req.ports, 256)
    /\ cxls.num_vcss = Min(last.req.vcss, 256)
    /\ cxls.num_vppbs = Min(last.req.vppbs, 256)
    /\ \A i \in DOMAIN cxls.ports :
         cxls.ports[i].state = FMPS_DISABLED /\ cxls.ports[i].prsnt = 0
    /\ \A i \in DOMAIN cxls.vcss :
         /\ cxls.vcss[i].state = FMVS_DISABLED
         /\ cxls.vcss[i].num = 0
         /\ \A k \in DOMAIN cxls.vcss[i].vppbs :
              cxls.vcss[i].vppbs[k] = ZeroVppb

\* Two distinct vPPBs (below their VCS's num) that are bound to the same
\* target: the same LD of the same port, or the same whole port
SameTarget(a, b) ==
  \/ /\ a.bind_status = FMBS_BOUND_LD /\ b.bind_status = FMBS_BOUND_LD
     /\ a.ppid = b.ppid /\ a.ldid = b.ldid
  \/ /\ a.bind_status = FMBS_BOUND_PORT /\ b.bind_status = FMBS_BOUND_PORT
     /\ a.ppid = b.ppid
DuplicateBinding(S) ==
  \E x \in Vppbs, y \in Vppbs :
    /\ x # y
    /\ x[2] < S.vcss[x[1]].num /\ y[2] < S.vcss[y[1]].num
    /\ SameTarget(VppbOf(S, x), VppbOf(S, y))

\* C35: a VSC_BIND or VSC_UNBIND handled in a state without duplicate
\* bindings leaves a state without duplicate bindings: at most one vPPB is
\* BOUND_LD to any (ppid, ldid) and at most one is BOUND_PORT to any ppid.
C35_NoDuplicateBinding ==
  [][ ( /\ Len(tmq') > Len(tmq)
        /\ last'.op \in {"VSC_BIND", "VSC_UNBIND"}
        /\ ~DuplicateBinding(cxls) ) => ~DuplicateBinding(cxls') ]_vars

\* A vPPB (below its VCS's num) that is bound to a port without a device
OrphanBinding(S) ==
  \E x \in Vppbs :
    /\ x[2] < S.vcss[x[1]].num
    /\ VppbOf(S, x).bind_status \in {FMBS_BOUND_LD, FMBS_BOUND_PORT}
    /\ \/ VppbOf(S, x).ppid >= S.num_ports
       \/ S.ports[VppbOf(S, x).ppid].prsnt # 1

\* C36: a VSC_BIND, VSC_UNBIND, CONN_DEV or DISCON_DEV handled in a state
\* where every bound vPPB references a port with prsnt = 1 leaves such a
\* state: no vPPB remains bound to a port whose device was disconnected.
C36_BoundPortPresent ==
  [][ ( /\ Len(tmq') > Len(tmq)
        /\ last'.op \in {"VSC_BIND", "VSC_UNBIND", EMOP_CONN_DEV,
                        EMOP_DISCON_DEV}
        /\ ~OrphanBinding(cxls) ) => ~OrphanBinding(cxls') ]_vars

\* The requests that only ask: the status and identity queries, the port
\* and VCS listings, the event generator, the reads of the config spaces and
\* of the memory, the tunnelled MCC_INFO, MCC_QOS_STAT and getters, and the
\* emulator's device list
QueryOps ==
  {"ISC_BOS", "ISC_ID", "ISC_MSG_LIMIT_GET", "PSC_ID", "PSC_PORT",
   "VSC_INFO", "VSC_AER", EMOP_LIST_DEV}
MccQueries ==
  {"MCC_INFO", "MCC_QOS_STAT", "MCC_ALLOC_GET", "MCC_QOS_ALLOC_GET",
   "MCC_QOS_CTRL_GET", "MCC_QOS_LIMIT_GET"}
IsQuery(l) ==
  \/ l.op \in QueryOps
  \/ l.op \in {"PSC_CFG", "MPC_CFG", "MPC_MEM"} /\ l.req.type = FMCT_READ
  \/ l.op = "MPC_TMC" /\ l.req.msg.opcode \in MccQueries

\* C37: a query (ISC_BOS, ISC_ID, ISC_MSG_LIMIT_GET, PSC_ID, PSC_PORT,
\* VSC_INFO, VSC_AER, a tunnelled MCC_INFO, MCC_QOS_STAT or MCC getter, a READ
\* of PSC_CFG, MPC_CFG or MPC_MEM, the emulator's LIST_DEV) leaves the whole
\* switch model as it was, whatever its arguments and its return code.
C37_QueriesReadOnly ==
  [][ ( /\ \/ Len(tmq') + Len(acq') > Len(tmq) + Len(acq)
           \/ th' # th
        /\ IsQuery(last') ) => cxls' = cxls ]_vars
C37_Witness ==
  /\ last.op = "MPC_TMC" /\ last.req.msg.opcode = "MCC_INFO"
  /\ last.rc = FMRC_SUCCESS /\ last.obj.rc = FMRC_SUCCESS
  /\ last.obj.obj.size = Deref(cxls.ports[last.req.ppid].mld).memory_size
  /\ Deref(cxls.ports[1].mld).rng1[0] = 2
  /\ cxls.ports[2].prsnt = 1

\* C38: an MPC_MEM READ or WRITE that is answered SUCCESS touches only bytes
\* of the backing map, that is addresses in [0, memory_size), whatever rng1
\* and rng2 an MCC_ALLOC_SET stored for the LD (rng2 below rng1 and ranges
\* that end past memory_size included).
C38_MemWithinMap ==
  [][ ( /\ Len(tmq') > Len(tmq)
        /\ last'.op = "MPC_MEM"
        /\ last'.req.type \in {FMCT_READ, FMCT_WRITE}
        /\ last'.rc = FMRC_SUCCESS ) =>
        LET r == last'.req
            m == Deref(cxls.ports[r.ppid].mld)
            g == CASE m.granularity = 0 -> MemGranule
                   [] m.granularity = 1 -> 2 * MemGranule
                   [] m.granularity = 2 -> 4 * MemGranule
            base == (g * m.rng1[r.ldid]) % MemWord
        IN  /\ m.memspace = "MAPPED"
            /\ \A i \in 0..(r.len - 1) :
                 (base + r.offset + i) % MemWord < m.memory_size ]_vars

\* C39: a CONN_DEV that connects a device, on a port that is already
\* connected too, leaves no MLD descriptor and no backing map without an
\* owner: what the port held before is still owned by a port or was
\* released.
C39_NoOrphanMld ==
  [][ ( /\ Len(tmq') > Len(tmq)
        /\ last'.op = EMOP_CONN_DEV
        /\ last'.rc = EMRC_SUCCESS ) =>
        ConnectOrphans(cxls.ports[last'.req.ppid], Device(last'.req.dev))
          = {} ]_vars

\* C40: every MCC command (MCC_INFO, the getters, the setters, MCC_QOS_STAT)
\* tunnelled by MPC_TMC to a Type-3 port that has no MLD is answered, with
\* the inner return code INVALID_INPUT and an inner payload length of 0, and
\* leaves the model as it was.
C40_NoMldRejected ==
  [][ ( /\ \/ Len(tmq') + Len(acq') > Len(tmq) + Len(acq)
           \/ th' # th
        /\ last'.op = "MPC_TMC"
        /\ last'.req.type = MCMT_CXLCCI
        /\ last'.req.ppid < cxls.num_ports
        /\ IsType3(cxls.ports[last'.req.ppid])
        /\ cxls.ports[last'.req.ppid].mld = NULL
        /\ last'.req.msg.category = FMMT_REQ
        /\ last'.req.msg.opcode \in MccOps ) =>
        /\ last'.queue = "tmq"
        /\ last'.obj.rc = FMRC_INVALID_INPUT
        /\ last'.obj.len = 0
        /\ cxls' = cxls ]_vars

=========================================================================
